---- MODULE Spec2Model ----
(***************************************************************************)
(* PathCORE-T analysis: the gene-signature rules of                        *)
(* constants/gene_signature_definitions.py, process() and the __main__     *)
(* block of 1.analysis_scripts/build_co_occurrence_network.py.             *)
(*                                                                         *)
(* The specifications share the variables:                                 *)
(*   SigSpec   one call of each signature rule on a drawn weight vector    *)
(*   ProcSpec  one call of process() with drawn arguments and a drawn      *)
(*             binding of the module global it reads                       *)
(*   Spec      one run of the __main__ block, from docopt's result to the  *)
(*             last file written                                           *)
(*   LiveSpec  the run from the listing of the models on, with the         *)
(*             scheduling of the pool and of the script                    *)
(*   NetSpec   networks built from significant-pathways tables and merged  *)
(*   WebSpec   web_initialize_db.py's network loop followed by             *)
(*             web_edge_page_data.py's edge pages                          *)
(*   MetaSpec  a model's metadata written by the analysis script and read  *)
(*             back by web_initialize_db.py                                *)
(*   EdgeSpec  one call of EdgeInfo.get_edge_info on a drawn database      *)
(*   ShortenSpec  two pathway names shortened by a registered function     *)
(*   ExampleSpec  process() and the network it yields on five genes and    *)
(*             two pathways, with the enrichment test computed             *)
(***************************************************************************)
EXTENDS Integers, Sequences, FiniteSets, TLC

VARIABLES
    pc,                         \* position of the running code
    call,                       \* SigSpec / ProcSpec: the arguments of the call
    ret,                        \* SigSpec / ProcSpec: what the call returned or raised
    lib,                        \* behaviour of the pathcore enrichment functions
    crosstalk_correction,       \* module global of build_co_occurrence_network.py
                                \* (<<>> while the name is not bound, else <<value>>)
    arguments,                  \* the mapping docopt returned
    environ,                    \* cpu count, directory listing and file contents
    config,                     \* the names __main__ binds at lines 255-309
    weight_matrices,            \* list built at lines 311-317
    tasks,                      \* state of each delayed(process) call of the pool
    out,                        \* value each finished task returned
    results,                    \* list bound at line 329 (<<>> until then)
    files,                      \* output files written so far
    error,                      \* the exception that ended the run ("" if none)
    db                          \* the MongoDB collections of the web scripts

vars == <<pc, call, ret, lib, crosstalk_correction, arguments, environ, config,
          weight_matrices, tasks, out, results, files, error, db>>

mainVars == <<arguments, environ, config, weight_matrices, tasks, out,
              results, files, error, db>>

\* ---------------------------------------------------------------- bounds
MaxGenes == 3       \* longest weight vector drawn
MaxWeight == 2      \* weights are drawn from 0..MaxWeight
MaxFeatures == 2    \* most columns of a weight matrix
MaxModels == 2      \* most files of the models directory

\* ------------------------------------------------------ Python's None
None == <<>>
Some(x) == <<x>>

\* ------------------------------------------------- helpers on sequences
RECURSIVE SumSeq(_)
SumSeq(s) == IF s = <<>> THEN 0 ELSE Head(s) + SumSeq(Tail(s))

\* ================================================================
\* constants/gene_signature_definitions.py
\* ================================================================

(* float(s) for the strings a run passes as --signature-args and --alpha,  *)
(* with the number each denotes counted in hundredths ("2.5" is 250).      *)
(* float() raises ValueError on any other string.                          *)
FloatStrings == {"2.5", "1", "0", "-1", "0.05"}
float(s) ==
    CASE s = "2.5"  -> 250
      [] s = "1"    -> 100
      [] s = "0"    -> 0
      [] s = "-1"   -> -100
      [] s = "0.05" -> 5

(* pandas arithmetic on a feature weight vector v (a sequence of integer   *)
(* weights indexed by gene), kept exact by scaling with n = Len(v):        *)
(*   Dev(v, g)   = n * (v[g] - v.mean())                                   *)
(*   SumSq(v)    = n^2 * (n - 1) * v.std()^2     (pandas std has ddof=1)   *)
Dev(v, g) == Len(v) * v[g] - SumSeq(v)
SumSq(v) == SumSeq([g \in DOMAIN v |-> Dev(v, g) * Dev(v, g)])

(* std() of fewer than two values is NaN, and every comparison with NaN    *)
(* is False.                                                               *)
StdIsNaN(v) == Len(v) < 2

(* d / n >= std * v.std(), for d = n * (weight - mean) or its negation     *)
(* and std counted in hundredths.  The two sides are compared by sign and  *)
(* then by square: (100 d)^2 (n - 1) against std^2 * SumSq(v).             *)
AtLeastCutoff(v, d, std) ==
    /\ ~StdIsNaN(v)
    /\ IF std >= 0
         THEN d >= 0 /\ 10000 * d * d * (Len(v) - 1) >= std * std * SumSq(v)
         ELSE d >= 0 \/ 10000 * d * d * (Len(v) - 1) <= std * std * SumSq(v)

\* define_eADAGE_gene_signature._gene_signature
eADAGE_gene_signature(feature_weight_vector, std) ==
    LET positive_gene_signature ==
            {g \in DOMAIN feature_weight_vector :
                AtLeastCutoff(feature_weight_vector,
                              Dev(feature_weight_vector, g), std)}
        negative_gene_signature ==
            {g \in DOMAIN feature_weight_vector :
                AtLeastCutoff(feature_weight_vector,
                              -Dev(feature_weight_vector, g), std)}
    IN  <<positive_gene_signature, negative_gene_signature>>

\* define_NMF_gene_signature._gene_signature
NMF_positive_strict(feature_weight_vector, std) ==
    {g \in DOMAIN feature_weight_vector :
        /\ AtLeastCutoff(feature_weight_vector,
                         Dev(feature_weight_vector, g), std)
        /\ ~AtLeastCutoff(feature_weight_vector,
                          -Dev(feature_weight_vector, g), -std)}

NMF_positive(feature_weight_vector, std) ==
    {g \in DOMAIN feature_weight_vector :
        AtLeastCutoff(feature_weight_vector,
                      Dev(feature_weight_vector, g), std)}

NMF_gene_signature(feature_weight_vector, std) ==
    LET positive_gene_signature == NMF_positive(feature_weight_vector, std)
    IN  <<positive_gene_signature, {}>>

\* GENE_SIGNATURE_DEFINITIONS: name -> define_<model>_gene_signature
GENE_SIGNATURE_DEFINITIONS ==
    [eADAGE |-> "define_eADAGE_gene_signature",
     NMF    |-> "define_NMF_gene_signature"]

(* define_<model>_gene_signature(std): partial(_gene_signature,            *)
(* std=float(std)), or ValueError when float() rejects the string.         *)
define_gene_signature(which_signature, std) ==
    IF std \in FloatStrings
      THEN [raised |-> "", func |-> which_signature, std |-> float(std)]
      ELSE [raised |-> "ValueError", func |-> which_signature, std |-> 0]

\* calling the partial on a feature weight vector
apply_signature(partial_function_signature, feature_weight_vector) ==
    IF partial_function_signature.func = "define_eADAGE_gene_signature"
      THEN eADAGE_gene_signature(feature_weight_vector,
                                 partial_function_signature.std)
      ELSE NMF_gene_signature(feature_weight_vector,
                              partial_function_signature.std)

\* ================================================================
\* 1.analysis_scripts/build_co_occurrence_network.py: process()
\* ================================================================

\* the weight vectors the columns of a drawn weight matrix hold
ModelVectors == {<<0, 0, 2>>, <<1, 1, 1>>}

(* What a pathcore enrichment function does with one feature: it returns   *)
(* (None, None), returns (DataFrame, additional) with the significant      *)
(* pathways as rows, or raises.  lib fixes one outcome for each weight     *)
(* vector and each of the two functions, so a call is deterministic.       *)
EnrichmentFunctions == {"pathway_enrichment_with_overlap_correction",
                        "pathway_enrichment_no_overlap_correction"}
LibOutcomes ==
    {[kind |-> "none",  rows |-> <<>>],
     [kind |-> "table", rows |-> <<>>],
     [kind |-> "table", rows |-> <<"P1", "P2">>],
     [kind |-> "raise", rows |-> <<>>]}
LibBehaviours == [ModelVectors \X EnrichmentFunctions -> LibOutcomes]

(* The value (feature_df, additional) of one enrichment call.  additional  *)
(* is the metadata dict (lines 368-375 read its keys) when metadata is     *)
(* requested and an empty dict otherwise.                                  *)
enrichment_call(function, feature_weight_vector, partial_function_signature, metadata) ==
    LET o == lib[<<feature_weight_vector, function>>]
        signature == apply_signature(partial_function_signature,
                                     feature_weight_vector)
    IN  [raised     |-> IF o.kind = "raise" THEN "EnrichmentError" ELSE "",
         function   |-> function,
         feature_df |-> IF o.kind = "table" THEN Some(o.rows) ELSE None,
         additional |->
            IF o.kind # "table" THEN None
            ELSE IF metadata
              THEN Some([positive_signature |-> signature[1],
                         negative_signature |-> signature[2]])
              ELSE Some(<<>>)]

pathway_enrichment_with_overlap_correction(feature_weight_vector, pathway_definitions, partial_function_signature, alpha, correct_all_genes, metadata) ==
    enrichment_call("pathway_enrichment_with_overlap_correction",
                    feature_weight_vector, partial_function_signature,
                    metadata)

pathway_enrichment_no_overlap_correction(feature_weight_vector, pathway_definitions, partial_function_signature, alpha, metadata) ==
    enrichment_call("pathway_enrichment_no_overlap_correction",
                    feature_weight_vector, partial_function_signature,
                    metadata)

\* `if additional:` -- None and the empty dict are false
Truthy_unless_None(additional) == additional # None

Truthy(additional) == additional # None /\ DOMAIN additional[1] # {}

tag_rows_with_position(feature, rows) ==
    [i \in DOMAIN rows |-> [feature |-> i - 1, pathway |-> rows[i]]]

\* lines 219-220: the rows of feature_df, each with its "feature" column set
tag_rows(feature, rows) ==
    [i \in DOMAIN rows |-> [feature |-> feature, pathway |-> rows[i]]]

(* lines 218-224: what one feature's enrichment result adds to the table   *)
(* and to feature_metadata.                                                *)
accumulate_unguarded(acc, feature, r) ==
    IF r.feature_df = None
      THEN [acc EXCEPT !.raised = "AttributeError"]
      ELSE [acc EXCEPT
              !.significant_pathways_df =
                  @ \o tag_rows(feature, r.feature_df[1])]

accumulate_carrying(acc, feature, r) ==
    IF r.feature_df # None /\ acc.significant_pathways_df = <<>>
      THEN [acc EXCEPT
              !.significant_pathways_df =
                  @ \o tag_rows(feature, r.feature_df[1]),
              !.feature_metadata =
                  IF Truthy(r.additional)
                    THEN (feature :> r.additional[1]) @@ @
                    ELSE @]
      ELSE acc

accumulate_recording_always(acc, feature, r) ==
    [acc EXCEPT
       !.significant_pathways_df =
           IF r.feature_df # None
             THEN @ \o tag_rows(feature, r.feature_df[1]) ELSE @,
       !.feature_metadata = (feature :> r.additional) @@ @]

accumulate(acc, feature, r) ==
    IF r.feature_df # None
      THEN [acc EXCEPT
              !.significant_pathways_df =
                  @ \o tag_rows(feature, r.feature_df[1]),
              !.feature_metadata =
                  IF Truthy(r.additional)
                    THEN (feature :> r.additional[1]) @@ @
                    ELSE @]
      ELSE acc

(* lines 205-217: one pass of the loop body.  The test reads the module    *)
(* global crosstalk_correction, not the parameter overlap_correction; the  *)
(* read raises NameError while the global is not bound.                    *)
process_feature(acc, column, a) ==
    IF acc.raised # "" THEN acc
    ELSE IF crosstalk_correction = None
      THEN [acc EXCEPT !.raised = "NameError"]
    ELSE
      LET r == IF crosstalk_correction[1]
                 THEN pathway_enrichment_with_overlap_correction(
                          column.vector, a.pathway_definitions,
                          a.partial_function_signature, a.alpha,
                          a.correct_all_genes, a.metadata)
                 ELSE pathway_enrichment_no_overlap_correction(
                          column.vector, a.pathway_definitions,
                          a.partial_function_signature, a.alpha, a.metadata)
          called == [acc EXCEPT
                       !.calls = Append(@, [feature  |-> column.feature,
                                            function |-> r.function])]
      IN  IF r.raised # ""
            THEN [called EXCEPT !.raised = r.raised]
            ELSE accumulate(called, column.feature, r)

\* lines 204-224: `for feature in weight_matrix`
RECURSIVE process_loop(_, _, _)
process_loop(acc, columns, a) ==
    IF columns = <<>> THEN acc
    ELSE process_loop(process_feature(acc, Head(columns), a),
                      Tail(columns), a)

(* process(): the dict it returns, or the exception it raises (raised).    *)
(* calls lists the enrichment calls it made, in order.                     *)
process(current_weight_matrix, pathway_definitions, partial_function_signature, alpha, overlap_correction, correct_all_genes, metadata) ==
    LET filename == current_weight_matrix[1]
        weight_matrix == current_weight_matrix[2]
        a == [pathway_definitions        |-> pathway_definitions,
              partial_function_signature |-> partial_function_signature,
              alpha                      |-> alpha,
              overlap_correction         |-> overlap_correction,
              correct_all_genes          |-> correct_all_genes,
              metadata                   |-> metadata]
        done == process_loop([raised                  |-> "",
                              significant_pathways_df |-> <<>>,
                              feature_metadata        |-> <<>>,
                              calls                   |-> <<>>],
                             weight_matrix, a)
    IN  [raised               |-> done.raised,
         filename             |-> filename,
         significant_pathways |-> done.significant_pathways_df,
         feature_metadata     |-> done.feature_metadata,
         calls                |-> done.calls]

\* ================================================================
\* SigSpec: the two signature rules applied to one weight vector
\* ================================================================

WeightVectors == UNION {[1..n -> 0..MaxWeight] : n \in 0..MaxGenes}

\* the variables of the __main__ run, while no run is modelled
MainIdle ==
    /\ arguments = <<>>
    /\ environ = <<>>
    /\ config = <<>>
    /\ weight_matrices = <<>>
    /\ tasks = <<>>
    /\ out = <<>>
    /\ results = <<>>
    /\ files = <<>>
    /\ error = ""
    /\ db = <<>>

SigInit ==
    /\ pc = "signature_call"
    /\ call \in [feature_weight_vector : WeightVectors, std : FloatStrings]
    /\ ret = <<>>
    /\ lib = <<>>
    /\ crosstalk_correction = None
    /\ MainIdle

(* GENE_SIGNATURE_DEFINITIONS[name](std)(feature_weight_vector), for a     *)
(* registered name not called yet.                                         *)
CallSignature(name) ==
    /\ pc = "signature_call"
    /\ name \notin DOMAIN ret
    /\ LET partial_function_signature ==
               define_gene_signature(GENE_SIGNATURE_DEFINITIONS[name],
                                     call.std)
       IN  ret' = (name :> apply_signature(partial_function_signature,
                                           call.feature_weight_vector)) @@ ret
    /\ UNCHANGED <<pc, call, lib, crosstalk_correction, mainVars>>

SigNext == \E name \in DOMAIN GENE_SIGNATURE_DEFINITIONS : CallSignature(name)

SigSpec == SigInit /\ [][SigNext]_vars

\* ================================================================
\* ProcSpec: one call of process()
\* ================================================================

(* A weight matrix: its columns in order, labelled 0..k-1, each with the   *)
(* weight vector it holds.                                                 *)
WeightMatrices ==
    UNION {{[i \in 1..k |-> [feature |-> i - 1, vector |-> vs[i]]] :
                vs \in [1..k -> ModelVectors]} : k \in 0..MaxFeatures}

PathwayDefinitions == [P1 |-> {1, 2}, P2 |-> {2, 3}]
DefaultSignature == define_gene_signature("define_eADAGE_gene_signature", "2.5")

ProcInit ==
    /\ pc = "process_call"
    /\ call \in [current_weight_matrix : {"model_a"} \X WeightMatrices,
                 overlap_correction : BOOLEAN,
                 correct_all_genes : BOOLEAN,
                 metadata : BOOLEAN]
    /\ ret = <<>>
    /\ lib \in LibBehaviours
    /\ crosstalk_correction \in {None, Some(TRUE), Some(FALSE)}
    /\ MainIdle

CallProcess ==
    /\ pc = "process_call"
    /\ ret' = process(call.current_weight_matrix, PathwayDefinitions,
                      DefaultSignature, float("0.05"),
                      call.overlap_correction, call.correct_all_genes,
                      call.metadata)
    /\ pc' = "process_done"
    /\ UNCHANGED <<call, lib, crosstalk_correction, mainVars>>

ProcNext == CallProcess

ProcSpec == ProcInit /\ [][ProcNext]_vars

\* ================================================================
\* Spec: the __main__ block of build_co_occurrence_network.py
\* ================================================================

OUTPUT_FILE_NAMING == "SigPathway"
METADATA_FILE_ENDS_WITH == "pathcore_overrepresentation_analysis.tsv"

\* SHORTEN_PATHWAY_NAMES: name -> function (constants/shorten_pathway_names.py)
SHORTEN_PATHWAY_NAMES ==
    [PAO1_KEGG |-> "paeruginosa_shorten_kegg",
     TCGA_PID  |-> "tcga_shorten_pid"]

(* int(s) and str.isdigit() for the strings a run passes as <n-genes> and  *)
(* --n-cores.                                                              *)
DigitStrings == {"0", "1", "2", "3"}
int(s) ==
    CASE s = "0" -> 0
      [] s = "1" -> 1
      [] s = "2" -> 2
      [] s = "3" -> 3
isdigit(s) == s \in DigitStrings

\* the default docopt gives --n-cores (line 97)
NCoresDefault == "num. available cores - 1"

(* A file name of the models directory, as the parts of the string: model  *)
(* i is "model<i>_network.tsv".  str.replace(old, new) swaps the parts     *)
(* equal to old.                                                           *)
ModelFilename(i) == <<"model", ToString(i), "_", "network", ".tsv">>
ModelFilenames == {ModelFilename(i) : i \in 1..MaxModels}
replace(name, old, new) ==
    [k \in DOMAIN name |-> IF name[k] = old THEN new ELSE name[k]]

\* every order in which os.listdir can return some files of the directory
Listings ==
    {l \in UNION {[1..n -> ModelFilenames] : n \in 0..MaxModels} :
        \A i, j \in DOMAIN l : i # j => l[i] # l[j]}

(* The weight matrix stored in model file i: MaxFeatures columns, the      *)
(* first i - 1 of them holding the second vector of ModelVectors.          *)
FileMatrix(model) ==
    LET i == CHOOSE n \in 1..MaxModels : ModelFilename(n) = model
    IN  [j \in 1..MaxFeatures |->
            [feature |-> j - 1,
             vector  |-> IF j < i THEN <<1, 1, 1>> ELSE <<0, 0, 2>>]]

(* The enrichment behaviours drawn for a run: both functions agree on      *)
(* each vector, and <<0, 0, 2>> always has significant pathways.           *)
MainLibBehaviours ==
    {l \in LibBehaviours :
        \A v \in ModelVectors :
            /\ l[<<v, "pathway_enrichment_with_overlap_correction">>] =
               l[<<v, "pathway_enrichment_no_overlap_correction">>]
            /\ v = <<0, 0, 2>> =>
                 l[<<v, "pathway_enrichment_no_overlap_correction">>].rows # <<>>}

CpuCounts == {1, 2}

(* arguments holds the entries of docopt's mapping the run has read so     *)
(* far and environ what it has asked of the machine; the value of each is  *)
(* drawn when it is first read.                                            *)
Init ==
    /\ pc = "parse_sizes"
    /\ call = <<>>
    /\ ret = <<>>
    /\ lib \in MainLibBehaviours
    /\ crosstalk_correction = None
    /\ arguments = <<>>
    /\ environ = <<>>
    /\ config = <<>>
    /\ weight_matrices = <<>>
    /\ tasks = <<>>
    /\ out = <<>>
    /\ results = <<>>
    /\ files = <<>>
    /\ error = ""
    /\ db = <<>>

\* an uncaught exception ends the run
Raise(exception) ==
    /\ pc' = "failed"
    /\ error' = exception

\* name = value at module level
Bind(bindings) == config' = bindings @@ config

\* arguments[key] for the keys of `given`, read for the first time
ReadArguments(given) == arguments' = given @@ arguments

poolVars == <<weight_matrices, tasks, out, results, files>>
fixedVars == <<call, ret, lib, db>>

\* lines 251-256
ParseSizes ==
    /\ pc = "parse_sizes"
    /\ \E n \in {"3", "0"} :
         /\ ReadArguments("<n-genes>" :> n)
         /\ Bind([n_genes |-> int(n), n_features |-> MaxFeatures])
    /\ pc' = "select_signature"
    /\ UNCHANGED <<fixedVars, environ, poolVars, crosstalk_correction, error>>

(* lines 258-265: the registry entry of the requested name, or None when  *)
(* the name is not registered (line 259 then raises ValueError).           *)
lookup_signature_or_default(signature) ==
    IF signature \in DOMAIN GENE_SIGNATURE_DEFINITIONS
      THEN Some(GENE_SIGNATURE_DEFINITIONS[signature])
      ELSE Some(GENE_SIGNATURE_DEFINITIONS["eADAGE"])

lookup_signature(signature) ==
    IF signature \notin DOMAIN GENE_SIGNATURE_DEFINITIONS
      THEN None
      ELSE Some(GENE_SIGNATURE_DEFINITIONS[signature])

\* lines 258-268
SelectSignature ==
    /\ pc = "select_signature"
    /\ \E signature \in {"eADAGE", "NMF", "PCA"}, args \in {"2.5", "two"} :
         IF lookup_signature(signature) = None
           THEN /\ ReadArguments("--signature" :> signature)
                /\ Raise("ValueError: gene signature definition")
                /\ UNCHANGED config
           ELSE LET which_signature == lookup_signature(signature)[1]
                    partial_function_signature ==
                        define_gene_signature(which_signature, args)
                IN  /\ ReadArguments(("--signature" :> signature)
                                     @@ ("--signature-args" :> args))
                    /\ IF partial_function_signature.raised # ""
                         THEN Raise("ValueError: float") /\ UNCHANGED config
                         ELSE /\ Bind([which_signature |-> which_signature,
                                       partial_function_signature |->
                                           partial_function_signature])
                              /\ pc' = "parse_alpha"
                              /\ UNCHANGED error
    /\ UNCHANGED <<fixedVars, environ, poolVars, crosstalk_correction>>

\* lines 270-273
ParseAlpha ==
    /\ pc = "parse_alpha"
    /\ \E alpha \in {"0.05", "-1", "five"} :
         /\ ReadArguments(("--alpha" :> alpha) @@ ("--replace" :> "network"))
         /\ IF alpha \notin FloatStrings
              THEN Raise("ValueError: float") /\ UNCHANGED config
              ELSE /\ Bind([alpha |-> float(alpha),
                            substring_to_replace |-> "network"])
                   /\ pc' = "read_flags"
                   /\ UNCHANGED error
    /\ UNCHANGED <<fixedVars, environ, poolVars, crosstalk_correction>>

(* lines 275-288.  Line 275 reads the key "--crosstalk-correction", which  *)
(* the Usage block (lines 30-41) does not declare: it declares             *)
(* --overlap-correction.  The mapping handed to the run may not hold the   *)
(* key, and the read then raises KeyError.                                 *)
ReadFlags ==
    /\ pc = "read_flags"
    /\ \/ /\ Raise("KeyError: --crosstalk-correction")
          /\ UNCHANGED <<arguments, config, crosstalk_correction>>
       \/ \E crosstalk, all_genes, with_metadata \in BOOLEAN :
            /\ ReadArguments(("--crosstalk-correction" :> crosstalk)
                             @@ ("--all-genes" :> all_genes)
                             @@ ("--metadata" :> with_metadata))
            /\ crosstalk_correction' = Some(crosstalk)
            /\ Bind([correct_all_genes |-> all_genes,
                     metadata |-> with_metadata])
            /\ pc' = "set_cores"
            /\ UNCHANGED error
    /\ UNCHANGED <<fixedVars, environ, poolVars>>

\* lines 290-293
SetCores ==
    /\ pc = "set_cores"
    /\ \E given \in {"0", "1", "2", NCoresDefault} :
         /\ ReadArguments("--n-cores" :> given)
         /\ IF isdigit(given)
              THEN Bind([n_cores |-> int(given)]) /\ UNCHANGED environ
              ELSE \E cpu_count \in CpuCounts :
                     /\ environ' = [cpu_count |-> cpu_count] @@ environ
                     /\ Bind([n_cores |-> cpu_count - 1])
    /\ pc' = "select_shorten"
    /\ UNCHANGED <<fixedVars, poolVars, crosstalk_correction, error>>

(* lines 297-309.  Building the ValueError's message reads                 *)
(* arguments["shorten_function_key"], which is no key: the exception that  *)
(* leaves line 306 is that KeyError.                                       *)
SelectShorten ==
    /\ pc = "select_shorten"
    /\ \E shorten_function_key \in {None, Some("PAO1_KEGG"), Some("KEGG")} :
         /\ ReadArguments("--shorten" :> shorten_function_key)
         /\ IF /\ shorten_function_key # None
               /\ shorten_function_key[1] \in DOMAIN SHORTEN_PATHWAY_NAMES
              THEN /\ Bind([shorten_pathway_names |->
                              SHORTEN_PATHWAY_NAMES[shorten_function_key[1]],
                            pathway_definitions |-> PathwayDefinitions])
                   /\ pc' = "list_models"
                   /\ UNCHANGED error
              ELSE Raise("KeyError: shorten_function_key") /\ UNCHANGED config
    /\ UNCHANGED <<fixedVars, environ, poolVars, crosstalk_correction>>

\* line 312: os.listdir(models_directory)
ListModels ==
    /\ pc = "list_models"
    /\ \E listing \in Listings : environ' = [listdir |-> listing] @@ environ
    /\ pc' = "load_models"
    /\ UNCHANGED <<fixedVars, arguments, config, poolVars,
                   crosstalk_correction, error>>

(* lines 312-317: one pass of `for model in os.listdir(models_directory)`. *)
(* load_weight_matrix either returns the matrix stored in the file or      *)
(* raises on a file it cannot read.                                        *)
load_weight_matrix(model, readable) ==
    IF readable
      THEN [raised |-> "", weight_matrix |-> FileMatrix(model)]
      ELSE [raised |-> "LoadError", weight_matrix |-> <<>>]

LoadModel ==
    /\ pc = "load_models"
    /\ Len(weight_matrices) < Len(environ.listdir)
    /\ \E readable \in BOOLEAN :
         LET model == environ.listdir[Len(weight_matrices) + 1]
             loaded == load_weight_matrix(model, readable)
         IN  IF loaded.raised # ""
               THEN Raise(loaded.raised) /\ UNCHANGED weight_matrices
               ELSE /\ weight_matrices' =
                         Append(weight_matrices, <<model, loaded.weight_matrix>>)
                    /\ UNCHANGED <<pc, error>>
    /\ UNCHANGED <<fixedVars, arguments, environ, config,
                   crosstalk_correction, tasks, out, results, files>>

(* lines 319-331, entering `with Parallel(n_jobs=n_cores)`: joblib rejects *)
(* n_jobs = 0 with a ValueError; otherwise one delayed(process) call per   *)
(* entry of weight_matrices is queued, in list order.                      *)
some_loaded == weight_matrices # <<>>

\* the loop of line 312 is exhausted
all_loaded == Len(weight_matrices) = Len(environ.listdir)

OpenPool ==
    /\ pc = "load_models"
    /\ all_loaded
    /\ IF config.n_cores = 0
         THEN Raise("ValueError: n_jobs == 0") /\ UNCHANGED <<tasks, out>>
         ELSE /\ tasks' = [i \in DOMAIN weight_matrices |-> "queued"]
              /\ out' = [i \in DOMAIN weight_matrices |-> None]
              /\ pc' = "fan_out"
              /\ UNCHANGED error
    /\ UNCHANGED <<fixedVars, arguments, environ, config,
                   crosstalk_correction, weight_matrices, results, files>>

Running_or_finished == {i \in DOMAIN tasks : tasks[i] # "queued"}

Running == {i \in DOMAIN tasks : tasks[i] = "running"}

(* A worker takes the next queued call.  At most n_cores calls run at a    *)
(* time.                                                                   *)
Dispatch(i) ==
    /\ pc = "fan_out"
    /\ tasks[i] = "queued"
    /\ \A j \in 1..(i - 1) : tasks[j] # "queued"
    /\ Cardinality(Running) < config.n_cores
    /\ tasks' = [tasks EXCEPT ![i] = "running"]
    /\ UNCHANGED <<pc, fixedVars, arguments, environ, config,
                   crosstalk_correction, weight_matrices, out, results,
                   files, error>>

(* line 330: process(weight_matrix_info, *process_model_args) runs to its  *)
(* end on the worker.                                                      *)
process_model_of_first(weight_matrix_info) ==
    process(weight_matrices[1], config.pathway_definitions,
            config.partial_function_signature, config.alpha,
            crosstalk_correction[1], config.correct_all_genes,
            config.metadata)

process_model(weight_matrix_info) ==
    process(weight_matrix_info, config.pathway_definitions,
            config.partial_function_signature, config.alpha,
            crosstalk_correction[1], config.correct_all_genes,
            config.metadata)

TaskReturns(i, returned) ==
    /\ pc = "fan_out"
    /\ tasks[i] = "running"
    /\ tasks' = [tasks EXCEPT ![i] = IF returned.raised = ""
                                       THEN "done" ELSE "raised"]
    /\ out' = [out EXCEPT ![i] = Some(returned)]
    /\ UNCHANGED <<pc, fixedVars, arguments, environ, config,
                   crosstalk_correction, weight_matrices, results, files,
                   error>>

\* a running call ends with what process() returns or raises for its model
RunTask(i) ==
    \E returned \in {process_model(weight_matrices[i])} :
        TaskReturns(i, returned)

(* line 329: parallel(...) returns once every call has returned; the list  *)
(* holds the return values in the order the calls were submitted.          *)
gather_first(returned) ==
    [i \in 1..(Len(returned) - 1) |-> returned[i][1]]

gather(returned) == [i \in DOMAIN returned |-> returned[i][1]]

Gather ==
    /\ pc = "fan_out"
    /\ \A i \in DOMAIN tasks : tasks[i] = "done"
    /\ results' = gather(out)
    /\ Bind([model_number |-> 0])
    /\ pc' = "write_results"
    /\ UNCHANGED <<fixedVars, arguments, environ, crosstalk_correction,
                   weight_matrices, tasks, out, files, error>>

(* joblib re-raises in the parent the exception of a call that raised and  *)
(* aborts the calls still queued or running: line 329 never binds results  *)
(* and the run ends.                                                       *)
PoolRaise(i) ==
    /\ pc = "fan_out"
    /\ tasks[i] = "raised"
    /\ tasks' = [j \in DOMAIN tasks |->
                    IF tasks[j] \in {"queued", "running"}
                      THEN "aborted" ELSE tasks[j]]
    /\ Raise(out[i][1].raised)
    /\ UNCHANGED <<fixedVars, arguments, environ, config,
                   crosstalk_correction, weight_matrices, out, results,
                   files>>

(* pathcore.CoNetwork, built at lines 351-353 from one significant-        *)
(* pathways table.  An edge is an unordered pair of distinct pathways, kept *)
(* as the set of the two names; edges maps each edge of the network to the  *)
(* list of the features that contribute to it.                              *)
RECURSIVE unique(_)
unique(values) ==
    IF values = <<>> THEN <<>>
    ELSE LET rest == unique(Tail(values))
         IN  IF \E i \in DOMAIN rest : rest[i] = Head(values)
               THEN rest ELSE <<Head(values)>> \o rest

\* the features of a table, each once
table_features(significant_pathways) ==
    unique([i \in DOMAIN significant_pathways |->
                significant_pathways[i].feature])

\* the set of pathways significant for a feature
pathways_in_feature(significant_pathways, feature) ==
    {significant_pathways[i].pathway :
        i \in {j \in DOMAIN significant_pathways :
                 significant_pathways[j].feature = feature}}

\* every unordered pair of distinct pathways of a set
combinations_of_two_with_self(pathways) == {{a, b} : a, b \in pathways}

combinations_of_two(pathways) ==
    {{a, b} : a, b \in pathways} \ {{a} : a \in pathways}

\* each pair becomes an edge or has the feature appended to its list
augment_network(edges, feature, pairs) ==
    [e \in DOMAIN edges \cup pairs |->
        (IF e \in DOMAIN edges THEN edges[e] ELSE <<>>)
        \o (IF e \in pairs THEN <<feature>> ELSE <<>>)]

RECURSIVE edges_from_features(_, _, _)
edges_from_features(edges, features, significant_pathways) ==
    IF features = <<>> THEN edges
    ELSE edges_from_features(
             augment_network(edges, Head(features),
                 combinations_of_two(
                     pathways_in_feature(significant_pathways,
                                         Head(features)))),
             Tail(features), significant_pathways)

CoNetwork(n_features, significant_pathways) ==
    [n_features |-> n_features,
     edges      |-> edges_from_features(<<>>,
                        table_features(significant_pathways),
                        significant_pathways)]

model_outputs_unnumbered(model_number, model_results, substring_to_replace, n_features) ==
    <<[directory |-> "output",
       name      |-> replace(model_results.filename, substring_to_replace,
                             OUTPUT_FILE_NAMING),
       model     |-> model_results.filename,
       content   |-> model_results.significant_pathways],
      [directory |-> "networks",
       name      |-> <<"pathcore_network.tsv">>,
       model     |-> model_results.filename,
       content   |-> CoNetwork(n_features,
                               model_results.significant_pathways)]>>

(* lines 337-385: one pass of `for model_number, model_results in          *)
(* enumerate(results)`, as the list of files it writes.                    *)
model_outputs(model_number, model_results, substring_to_replace, n_features) ==
    LET significant_pathways_out ==
            replace(model_results.filename, substring_to_replace,
                    OUTPUT_FILE_NAMING)
        metadata_file(partial_filename) ==
            [directory |-> "metadata",
             name      |-> <<ToString(model_number), "_", partial_filename, "_",
                             METADATA_FILE_ENDS_WITH>>,
             model     |-> model_results.filename,
             content   |-> model_results.feature_metadata]
    IN  <<[directory |-> "output",
           name      |-> <<ToString(model_number), "_">> \o significant_pathways_out,
           model     |-> model_results.filename,
           content   |-> model_results.significant_pathways],
          [directory |-> "networks",
           name      |-> <<ToString(model_number), "_", "pathcore_network.tsv">>,
           model     |-> model_results.filename,
           content   |-> CoNetwork(n_features,
                                   model_results.significant_pathways)]>>
        \o (IF DOMAIN model_results.feature_metadata # {}
              THEN <<metadata_file("FEATURE_SIGNATURES"),
                     metadata_file("FEATURE_PATHWAYS")>>
              ELSE <<>>)

WriteModel ==
    /\ pc = "write_results"
    /\ config.model_number < Len(results)
    /\ files' = files \o model_outputs(config.model_number,
                                       results[config.model_number + 1],
                                       config.substring_to_replace,
                                       config.n_features)
    /\ config' = [config EXCEPT !.model_number = @ + 1]
    /\ UNCHANGED <<pc, fixedVars, arguments, environ, crosstalk_correction,
                   weight_matrices, tasks, out, results, error>>

\* the loop of line 337 is exhausted: the script ends
Exit ==
    /\ pc = "write_results"
    /\ config.model_number = Len(results)
    /\ pc' = "done"
    /\ UNCHANGED <<fixedVars, arguments, environ, config,
                   crosstalk_correction, poolVars, error>>

Next ==
    \/ ParseSizes
    \/ SelectSignature
    \/ ParseAlpha
    \/ ReadFlags
    \/ SetCores
    \/ SelectShorten
    \/ ListModels
    \/ LoadModel
    \/ OpenPool
    \/ \E i \in DOMAIN tasks : Dispatch(i)
    \/ \E i \in DOMAIN tasks : RunTask(i)
    \/ Gather
    \/ \E i \in DOMAIN tasks : PoolRaise(i)
    \/ WriteModel
    \/ Exit

Spec == Init /\ [][Next]_vars

(* The run from line 311 on, once the options are read (lines 251-309),    *)
(* with its scheduling: a worker that is free takes a queued call, a call  *)
(* that is running runs to its end, and the parent, a sequential script,   *)
(* takes its next step when it can.                                        *)
LiveInit ==
    /\ pc = "list_models"
    /\ \E crosstalk, with_metadata \in BOOLEAN, given \in DigitStrings :
         /\ arguments = ("<n-genes>" :> "3") @@ ("--signature" :> "eADAGE")
                        @@ ("--signature-args" :> "2.5")
                        @@ ("--alpha" :> "0.05") @@ ("--replace" :> "network")
                        @@ ("--crosstalk-correction" :> crosstalk)
                        @@ ("--all-genes" :> FALSE)
                        @@ ("--metadata" :> with_metadata)
                        @@ ("--n-cores" :> given)
                        @@ ("--shorten" :> Some("PAO1_KEGG"))
         /\ crosstalk_correction = Some(crosstalk)
         /\ config = [n_genes |-> 3, n_features |-> MaxFeatures,
                      which_signature |-> "define_eADAGE_gene_signature",
                      partial_function_signature |-> DefaultSignature,
                      alpha |-> float("0.05"),
                      substring_to_replace |-> "network",
                      correct_all_genes |-> FALSE,
                      metadata |-> with_metadata,
                      n_cores |-> int(given),
                      shorten_pathway_names |->
                          SHORTEN_PATHWAY_NAMES["PAO1_KEGG"],
                      pathway_definitions |-> PathwayDefinitions]
    /\ lib \in MainLibBehaviours
    /\ environ = <<>>
    /\ call = <<>>
    /\ ret = <<>>
    /\ weight_matrices = <<>>
    /\ tasks = <<>>
    /\ out = <<>>
    /\ results = <<>>
    /\ files = <<>>
    /\ error = ""
    /\ db = <<>>

LiveNext ==
    \/ ListModels
    \/ LoadModel
    \/ OpenPool
    \/ \E i \in DOMAIN tasks : Dispatch(i)
    \/ \E i \in DOMAIN tasks : RunTask(i)
    \/ Gather
    \/ \E i \in DOMAIN tasks : PoolRaise(i)
    \/ WriteModel
    \/ Exit

(* Weak fairness of the steps whose result is costly to compute, written   *)
(* out as []<>~ENABLED <<A>>_vars \/ []<><<A>>_vars with the guard of A    *)
(* in the place of ENABLED <<A>>_vars: both steps change a variable        *)
(* whenever their guard holds.                                             *)
TaskFairness ==
    \/ []<>~(pc = "fan_out" /\ \E i \in DOMAIN tasks : tasks[i] = "running")
    \/ []<><<\E i \in DOMAIN tasks : RunTask(i)>>_vars

WriteFairness ==
    \/ []<>~(pc = "write_results" /\ config.model_number < Len(results))
    \/ []<><<WriteModel>>_vars

LiveSpec ==
    /\ LiveInit
    /\ [][LiveNext]_vars
    /\ WF_vars(\E i \in DOMAIN tasks : Dispatch(i))
    /\ TaskFairness
    /\ WF_vars(Gather)
    /\ WriteFairness
    /\ WF_vars(Exit)

\* ================================================================
\* NetSpec: networks built from significant-pathways tables and merged
\* ================================================================

\* the models whose networks are merged, each the namespace of its features
Namespaces == {"m0", "m1", "m2"}

(* The rows the enrichment of one feature can contribute to a table: the   *)
(* pathway column of each (a pathway significant for both signatures of a  *)
(* feature has two rows).                                                  *)
FeatureRows == {<<"P1">>, <<"P2", "P1", "P2">>, <<"P1", "P2", "P3">>}

RECURSIVE concat_rows(_, _)
concat_rows(per_feature, feature) ==
    IF feature > Len(per_feature) THEN <<>>
    ELSE tag_rows(feature - 1, per_feature[feature])
         \o concat_rows(per_feature, feature + 1)

\* the significant-pathways tables of a model with MaxFeatures features
NetTables ==
    {concat_rows(per_feature, 1) :
        per_feature \in [1..MaxFeatures -> FeatureRows]}

\* the feature ids of a network, each prefixed with its model
namespaced(network, model) ==
    [network EXCEPT
        !.edges = [e \in DOMAIN network.edges |->
                      [i \in DOMAIN network.edges[e] |->
                          <<model, network.edges[e][i]>>]]]

(* Merging a network into another: an edge of both accumulates the         *)
(* contributing features of both, and the feature totals add up.           *)
aggregate_overwriting(network, other) ==
    [n_features |-> network.n_features + other.n_features,
     edges      |-> other.edges @@ network.edges]

aggregate(network, other) ==
    [n_features |-> network.n_features + other.n_features,
     edges      |->
        [e \in DOMAIN network.edges \cup DOMAIN other.edges |->
            (IF e \in DOMAIN network.edges THEN network.edges[e] ELSE <<>>)
            \o (IF e \in DOMAIN other.edges THEN other.edges[e] ELSE <<>>)]]

\* the weight of an edge: the number of its contributing features
edge_weight(network, e) == Len(network.edges[e])

EmptyNetwork == [n_features |-> 0, edges |-> <<>>]

NetInit ==
    /\ pc = "net_tables"
    /\ call \in [Namespaces -> NetTables]
    /\ ret = <<>>
    /\ lib = <<>>
    /\ crosstalk_correction = None
    /\ MainIdle

\* one network per model, from its table
BuildNetworks ==
    /\ pc = "net_tables"
    /\ ret' = [networks |-> [m \in Namespaces |->
                                CoNetwork(MaxFeatures, call[m])],
               merged   |-> EmptyNetwork,
               order    |-> <<>>]
    /\ pc' = "net_merge"
    /\ UNCHANGED <<call, lib, crosstalk_correction, mainVars>>

\* the network of a model not merged yet is merged in
MergeNetwork(m) ==
    /\ pc = "net_merge"
    /\ \A i \in DOMAIN ret.order : ret.order[i] # m
    /\ ret' = [ret EXCEPT
                 !.merged = aggregate(@, namespaced(ret.networks[m], m)),
                 !.order  = Append(@, m)]
    /\ UNCHANGED <<pc, call, lib, crosstalk_correction, mainVars>>

NetNext ==
    \/ BuildNetworks
    \/ \E m \in Namespaces : MergeNetwork(m)

NetSpec == NetInit /\ [][NetNext]_vars

\* ================================================================
\* Metadata files: written at lines 359-385 of
\* build_co_occurrence_network.py, read by web_initialize_db.py
\* ================================================================

(* A string is the sequence of its parts: a gene identifier is one part    *)
(* and so is a separator.  Gene identifiers hold no ';', tab or newline.   *)
Genes == {"g1", "7", "NA"}

\* sep.join(items), for a list of strings
RECURSIVE join(_, _)
join(sep, items) ==
    IF items = <<>> THEN <<>>
    ELSE IF Len(items) = 1 THEN items[1]
    ELSE items[1] \o <<sep>> \o join(sep, Tail(items))

\* string.split(sep): the list of the strings between the separators
RECURSIVE split(_, _)
split(string, sep) ==
    IF \A k \in DOMAIN string : string[k] # sep THEN <<string>>
    ELSE LET k == CHOOSE i \in DOMAIN string :
                     /\ string[i] = sep
                     /\ \A j \in 1..(i - 1) : string[j] # sep
         IN  <<SubSeq(string, 1, k - 1)>>
             \o split(SubSeq(string, k + 1, Len(string)), sep)

\* the orders in which iterating over a set can yield its elements
Orderings(set) ==
    {o \in [1..Cardinality(set) -> set] :
        \A i, j \in DOMAIN o : i # j => o[i] # o[j]}

\* a set of genes listed in the order of a ranking of all genes
RECURSIVE listed(_, _)
listed(gene_set, ranking) ==
    IF ranking = <<>> THEN <<>>
    ELSE (IF Head(ranking) \in gene_set THEN <<Head(ranking)>> ELSE <<>>)
         \o listed(gene_set, Tail(ranking))

\* ";".join(gene_set), iterating in the order of ranking
join_genes(gene_set, ranking) ==
    join(";", [i \in DOMAIN listed(gene_set, ranking) |->
                  <<listed(gene_set, ranking)[i]>>])

\* str(feature_number), as csv.writer writes an int
str(number) == <<ToString(number)>>

(* lines 363-373: the rows of the FEATURE_SIGNATURES file, the column      *)
(* names first.  features lists the keys of feature_metadata in the order  *)
(* .items() yields them.                                                   *)
RECURSIVE gene_signatures_rows(_, _, _)
gene_signatures_rows(feature_metadata, features, ranking) ==
    IF features = <<>> THEN <<>>
    ELSE LET metadata_info == feature_metadata[Head(features)]
         IN  <<[feature |-> str(Head(features)),
                positive_signature |->
                    join_genes(metadata_info.positive_signature, ranking),
                negative_signature |->
                    join_genes(metadata_info.negative_signature, ranking)]>>
             \o gene_signatures_rows(feature_metadata, Tail(features), ranking)

(* lines 374-379: the rows of the FEATURE_PATHWAYS file; a pathway whose   *)
(* definition joins to the empty string has no row.                        *)
RECURSIVE pathway_rows(_, _, _, _)
pathway_rows(feature_number, pathway_definitions, pathways, ranking) ==
    IF pathways = <<>> THEN <<>>
    ELSE LET definition_genes ==
                 join_genes(pathway_definitions[Head(pathways)], ranking)
         IN  (IF definition_genes # <<>>
                THEN <<[feature |-> str(feature_number),
                        pathway |-> <<Head(pathways)>>,
                        gene_signature_definition |-> definition_genes]>>
                ELSE <<>>)
             \o pathway_rows(feature_number, pathway_definitions,
                             Tail(pathways), ranking)

RECURSIVE signature_pathway_definitions_rows(_, _, _, _)
signature_pathway_definitions_rows(feature_metadata, features, pathways, ranking) ==
    IF features = <<>> THEN <<>>
    ELSE pathway_rows(Head(features),
                      feature_metadata[Head(features)].pathway_definitions,
                      pathways, ranking)
         \o signature_pathway_definitions_rows(feature_metadata,
                                               Tail(features), pathways,
                                               ranking)

(* pandas.read_table on a file of rows (lines 97 and 209-210 of           *)
(* web_initialize_db.py), with its default settings: an empty field and a  *)
(* field that spells a missing value are read as NaN; a column whose other *)
(* fields all spell numbers is read as numbers; any other field stays a    *)
(* str.                                                                    *)
NaStrings == {<<>>, <<"NA">>}
NumberStrings == {<<"7">>} \cup {str(n) : n \in 0..MaxFeatures}

NaN == [type |-> "float", value |-> "nan"]

read_column(cells) ==
    LET given == {i \in DOMAIN cells : cells[i] \notin NaStrings}
        numeric == \A i \in given : cells[i] \in NumberStrings
    IN  [i \in DOMAIN cells |->
            IF i \notin given THEN NaN
            ELSE IF numeric THEN [type |-> "int", value |-> cells[i]]
            ELSE [type |-> "str", value |-> cells[i]]]

\* .to_dict("records"): one dict per row, column name -> value read
read_table(rows, columns) ==
    [i \in DOMAIN rows |->
        [c \in columns |-> read_column([k \in DOMAIN rows |-> rows[k][c]])[i]]]

\* the ObjectId the genes collection gave a gene (lines 159-167)
ObjectId(name) == <<"ObjectId", name>>

\* a set as a list, in the order iterating over it yields
RECURSIVE list(_)
list(set) ==
    IF set = {} THEN <<>>
    ELSE LET x == CHOOSE y \in set : TRUE
         IN  <<x>> \o list(set \ {x})

(* convert_to_gene_object_ids (lines 59-85): a str is split at ";" into a  *)
(* set, a set is taken as it is, and any other value gives the empty list. *)
convert_to_gene_object_ids(gene_set, gene_object_id_map) ==
    IF gene_set.type \notin {"str", "set"} THEN <<>>
    ELSE LET names == split(gene_set.value, ";")
             as_set == IF gene_set.type = "set"
                         THEN {<<gene>> : gene \in gene_set.value}
                         ELSE {names[i] : i \in DOMAIN names}
             known == {name \in as_set :
                          /\ Len(name) = 1
                          /\ name[1] \in DOMAIN gene_object_id_map}
             ordered == list(known)
         IN  [i \in DOMAIN ordered |-> gene_object_id_map[ordered[i][1]]]

\* int(value) for a feature number read from a file
int_of(value) == CHOOSE n \in 0..MaxFeatures : str(n) = value.value

(* lines 233-247 of web_initialize_db.py: the documents inserted into      *)
(* network_feature_signatures for one network.                             *)
signature_documents(metadata_feature_signatures, network_num, gene_to_object_id) ==
    [i \in DOMAIN metadata_feature_signatures |->
        LET signature_info == metadata_feature_signatures[i]
        IN  [network |-> network_num,
             feature |-> int_of(signature_info.feature),
             positive_signature |->
                 convert_to_gene_object_ids(signature_info.positive_signature,
                                            gene_to_object_id),
             negative_signature |->
                 convert_to_gene_object_ids(signature_info.negative_signature,
                                            gene_to_object_id)]]

(* lines 249-258: the documents inserted into network_feature_pathways.    *)
(* Line 251 looks up the name bound to `pathway`, which the loop of line   *)
(* 179 left bound to the last pathway of the definitions map.              *)
pathway_documents(metadata_feature_pathways, network_num, pathway, pathway_to_object_id, gene_to_object_id) ==
    [i \in DOMAIN metadata_feature_pathways |->
        LET pathway_info == metadata_feature_pathways[i]
        IN  [network |-> network_num,
             feature |-> int_of(pathway_info.feature),
             pathway |-> pathway_to_object_id[pathway],
             gene_signature_definition |->
                 convert_to_gene_object_ids(
                     pathway_info.gene_signature_definition,
                     gene_to_object_id)]]

SignatureColumns == {"feature", "positive_signature", "negative_signature"}
PathwayColumns == {"feature", "pathway", "gene_signature_definition"}

\* lines 163-167 and 187-191: name -> ObjectId
gene_to_object_id == [gene \in Genes |-> ObjectId(gene)]
pathway_to_object_id == [pathway \in {"P1", "P2", "P3"} |-> ObjectId(pathway)]

\* ================================================================
\* web_initialize_db.py (lines 176-258) and web_edge_page_data.py
\* ================================================================

\* lines 176-185: the documents of the pathways collection
pathway_info_list(pathway_definitions_map, pathways) ==
    [i \in DOMAIN pathways |->
        [_id         |-> ObjectId(pathways[i]),
         pathway     |-> pathways[i],
         annotations |->
            convert_to_gene_object_ids(
                [type |-> "set", value |-> pathway_definitions_map[pathways[i]]],
                gene_to_object_id)]]

(* lines 194-201: the (pw0, pw1) pairs of the final network, each in the   *)
(* order the network object read from the file gives its two pathways.     *)
edge_pathways(network_rows) ==
    {<<network_rows[i].pw0, network_rows[i].pw1>> : i \in DOMAIN network_rows}

\* int(float(x)) for a feature id of a network file
int_float(x) == CHOOSE n \in 0..MaxFeatures : <<ToString(n), ".", "0">> = x

\* a feature list as the network file holds it: ids joined with " "
features_field(features) ==
    join(" ", [i \in DOMAIN features |-> <<ToString(features[i]), ".", "0">>])

\* is a field of a network file a single number?
IsNumberField(field) == Len(field) = 3 /\ field[2] = "."

RECURSIVE filter_rows(_, _)
filter_rows(seq, keep) ==
    IF seq = <<>> THEN <<>>
    ELSE (IF Head(seq) \in keep THEN <<Head(seq)>> ELSE <<>>)
         \o filter_rows(Tail(seq), keep)

(* line 221: is the edge of a per-model network an edge of the final       *)
(* network?                                                                *)
in_final_network(pw0, pw1, edge_pathways_set) ==
    <<pw0, pw1>> \in edge_pathways_set

(* lines 217-229: the documents kept for one network.  The features column *)
(* is read as numbers when every edge of the file has one feature, and     *)
(* .split then raises AttributeError.                                      *)
keep_network_edges(current_network_edges, edge_pathways_set, network_num) ==
    LET kept == filter_rows(current_network_edges,
                    {edge_info \in {current_network_edges[i] :
                                       i \in DOMAIN current_network_edges} :
                        in_final_network(edge_info.pw0, edge_info.pw1,
                                         edge_pathways_set)})
        numbers == \A i \in DOMAIN current_network_edges :
                      IsNumberField(current_network_edges[i].features)
    IN  IF kept # <<>> /\ numbers
          THEN [raised |-> "AttributeError", documents |-> <<>>]
          ELSE [raised |-> "",
                documents |->
                  [i \in DOMAIN kept |->
                     LET ids == split(kept[i].features, " ")
                     IN  [edge     |-> <<pathway_to_object_id[kept[i].pw0],
                                         pathway_to_object_id[kept[i].pw1]>>,
                          features |-> [k \in DOMAIN ids |-> int_float(ids[k])],
                          weight   |-> kept[i].weight,
                          network  |-> network_num]]]

\* the entries of a list of documents that satisfy a query, in order
RECURSIVE find(_, _)
find(collection, matching) ==
    IF collection = <<>> THEN <<>>
    ELSE (IF Head(collection) \in matching THEN <<Head(collection)>> ELSE <<>>)
         \o find(Tail(collection), matching)

documents_of(collection) == {collection[i] : i \in DOMAIN collection}

(* EdgeInfo.get_edge_info, lines 110-152 of web_edge_page_data.py: the     *)
(* documents of network_edges whose edge is [pw0_id, pw1_id], the number   *)
(* of features they list, and for each gene annotated to the edge the      *)
(* number of those features whose signature holds the gene.                *)
edge_counts(database, pw0_name, pw1_name) ==
    LET pw0_info == find(database.pathways,
                        {d \in documents_of(database.pathways) :
                            d.pathway = pw0_name})[1]
        pw1_info == find(database.pathways,
                        {d \in documents_of(database.pathways) :
                            d.pathway = pw1_name})[1]
        pw0_annotations == documents_of(pw0_info.annotations)
        pw1_annotations == documents_of(pw1_info.annotations)
        genes_annotated_to_edge == pw0_annotations \cup pw1_annotations
        edge_in_networks ==
            find(database.network_edges,
                 {d \in documents_of(database.network_edges) :
                     d.edge = <<pw0_info._id, pw1_info._id>>})
        signatures == database.network_feature_signatures
        signature_of(feature_info) ==
            documents_of(feature_info.positive_signature)
                \cup documents_of(feature_info.negative_signature)
    IN  [genes_which_pathway |->
            [gene \in genes_annotated_to_edge |->
                IF gene \notin pw1_annotations THEN 0
                ELSE IF gene \notin pw0_annotations THEN 1 ELSE 2],
         networks |-> [i \in DOMAIN edge_in_networks |->
                          edge_in_networks[i].network],
         n_features_contain_edge |->
            SumSeq([i \in DOMAIN edge_in_networks |->
                       Len(edge_in_networks[i].features)]),
         count_gene_edge_common |->
            [gene \in genes_annotated_to_edge |->
                Cardinality(
                    {<<i, j>> \in (DOMAIN edge_in_networks) \X (DOMAIN signatures) :
                        /\ signatures[j].network = edge_in_networks[i].network
                        /\ signatures[j].feature \in
                              documents_of(edge_in_networks[i].features)
                        /\ gene \in signature_of(signatures[j])})]]

(* A quotient of two counts, kept as <<numerator, denominator>>; the      *)
(* floats the code divides are quotients of small integers, which compare *)
(* as the exact quotients do.                                              *)
greater(p, q) == p[1] * q[2] > q[1] * p[2]

\* line 187: `if odds_ratio > 1.`
above_one_or_equal(odds_ratio) == odds_ratio[1] >= odds_ratio[2]

above_one(odds_ratio) == odds_ratio[1] > odds_ratio[2]

(* list.sort(key=lambda x: -x[1]), lines 195-196: a stable sort, largest   *)
(* odds ratio first.                                                       *)
RECURSIVE insert_descending(_, _)
insert_descending(sorted, entry) ==
    IF sorted = <<>> THEN <<entry>>
    ELSE IF greater(entry.odds_ratio, Head(sorted).odds_ratio)
      THEN <<entry>> \o sorted
      ELSE <<Head(sorted)>> \o insert_descending(Tail(sorted), entry)

RECURSIVE sort_descending(_)
sort_descending(entries) ==
    IF entries = <<>> THEN <<>>
    ELSE insert_descending(sort_descending(SubSeq(entries, 1, Len(entries) - 1)),
                           entries[Len(entries)])

\* min(len(odds_ratios_above_one), self.keep_n_genes), lines 197-199
limit_genes_returned(odds_ratios_above_one, keep_n_genes) ==
    IF Len(odds_ratios_above_one) < keep_n_genes
      THEN Len(odds_ratios_above_one) ELSE keep_n_genes

(* lines 171-173: the number of documents of network_feature_signatures    *)
(* whose positive or negative signature holds the gene.                    *)
n_features_contain_gene(database, gene_id) ==
    Cardinality({j \in DOMAIN database.network_feature_signatures :
        LET feature_info == database.network_feature_signatures[j]
        IN  gene_id \in documents_of(feature_info.positive_signature)
                          \cup documents_of(feature_info.negative_signature)})

(* EdgeInfo._edge_pathway_annotation_odds_ratios, lines 158-200.  A float  *)
(* division by zero raises ZeroDivisionError: at line 169 when             *)
(* n_total_features is 0, at line 181 when the gene is in no signature,    *)
(* and at line 182 when n_features_contain_edge is 0.  gene_ids is the     *)
(* order in which the dict count_gene_edge_common yields its keys.         *)
edge_pathway_annotation_odds_ratios(database, n_total_features, keep_n_genes, which_pathway, n_features_contain_edge, count_gene_edge_common, gene_ids) ==
    LET skipped(gene_id) ==
            /\ count_gene_edge_common[gene_id] = 0
            /\ n_features_contain_gene(database, gene_id) = 0
        divided == filter_rows(gene_ids,
                       {gene_id \in DOMAIN count_gene_edge_common :
                           ~skipped(gene_id)})
        odds_ratio(gene_id) ==
            <<count_gene_edge_common[gene_id] * n_total_features,
              n_features_contain_gene(database, gene_id)
                  * n_features_contain_edge>>
        odds_ratios_above_one ==
            filter_rows(divided,
                {gene_id \in DOMAIN count_gene_edge_common :
                    above_one(odds_ratio(gene_id))})
        entries ==
            sort_descending(
                [i \in DOMAIN odds_ratios_above_one |->
                    [gene_name  |-> odds_ratios_above_one[i][2],
                     odds_ratio |-> odds_ratio(odds_ratios_above_one[i]),
                     which_pathway |->
                         which_pathway[odds_ratios_above_one[i]]]])
    IN  IF \/ n_total_features = 0
           \/ \E i \in DOMAIN divided :
                 \/ n_features_contain_gene(database, divided[i]) = 0
                 \/ n_features_contain_edge = 0
          THEN [raised |-> "ZeroDivisionError", entries |-> <<>>]
          ELSE [raised  |-> "",
                entries |->
                    SubSeq(entries, 1,
                           limit_genes_returned(entries, keep_n_genes))]

(* EdgeInfo._edge_page_data, lines 202-249, without the heat maps (which   *)
(* are read from the expression data of the genes collection).             *)
edge_page_data(gene_odds_ratio_list) ==
    IF gene_odds_ratio_list = <<>> THEN [flag |-> 1]
    ELSE [gene_names    |-> [i \in DOMAIN gene_odds_ratio_list |->
                                gene_odds_ratio_list[i].gene_name],
          odds_ratios   |-> [i \in DOMAIN gene_odds_ratio_list |->
                                gene_odds_ratio_list[i].odds_ratio],
          pathway_owner |-> [i \in DOMAIN gene_odds_ratio_list |->
                                gene_odds_ratio_list[i].which_pathway]]

(* EdgeInfo.get_edge_info, lines 95-156: the page of an edge, or the       *)
(* exception raised.  `returned` is what                                   *)
(* _edge_pathway_annotation_odds_ratios returned and `networks` the        *)
(* networks whose documents line 133 found.                                *)
get_edge_info(database, n_total_features, keep_n_genes, pw0_name, pw1_name, gene_ids) ==
    LET counts == edge_counts(database, pw0_name, pw1_name)
        annotated == filter_rows(gene_ids, DOMAIN counts.genes_which_pathway)
        odds_ratio_information ==
            edge_pathway_annotation_odds_ratios(
                database, n_total_features, keep_n_genes,
                counts.genes_which_pathway, counts.n_features_contain_edge,
                counts.count_gene_edge_common, annotated)
    IN  [raised   |-> odds_ratio_information.raised,
         networks |-> counts.networks,
         returned |-> odds_ratio_information.entries,
         page     |-> IF odds_ratio_information.raised # "" THEN <<>>
                      ELSE edge_page_data(odds_ratio_information.entries)]

\* ================================================================
\* WebSpec: web_initialize_db.py from line 176, then web_edge_page_data.py
\* ================================================================

WebPathways == {"P1", "P2", "P3"}
WebPathwayDefinitions ==
    [P1 |-> {"g1", "7"}, P2 |-> {"7", "NA"}, P3 |-> {"g1"}]

\* a row of a network file
network_row(pw0, pw1, features) ==
    [pw0 |-> pw0, pw1 |-> pw1, features |-> features_field(features),
     weight |-> Len(features)]

\* the final network: each of two edges absent or in one of its two orders
EdgeChoices(a, b) ==
    {<<>>, <<network_row(a, b, <<0>>)>>, <<network_row(b, a, <<0>>)>>}
FinalNetworks ==
    {x \o y : x \in EdgeChoices("P1", "P2"), y \in EdgeChoices("P2", "P3")}

\* the network file build_co_occurrence_network.py wrote for a model
ModelNetworks ==
    {<<>>,
     <<network_row("P1", "P2", <<0, 1>>)>>,
     <<network_row("P2", "P1", <<0, 1>>)>>,
     <<network_row("P1", "P2", <<0>>), network_row("P3", "P2", <<1>>)>>,
     <<network_row("P1", "P2", <<0, 1>>), network_row("P2", "P3", <<1>>)>>}

\* the feature_metadata of model number n, and its two metadata files
ModelMetadata(n) ==
    [feature \in 0..1 |->
        LET positive == IF (n + feature) % 2 = 0
                          THEN {"g1", "7"} ELSE {"7", "NA"}
        IN  [positive_signature  |-> positive,
             negative_signature  |-> {},
             pathway_definitions |-> [P1 |-> positive, P2 |-> {}]]]

SignaturesFile(n) ==
    gene_signatures_rows(ModelMetadata(n), <<0, 1>>, <<"g1", "7", "NA">>)
PathwaysFile(n) ==
    signature_pathway_definitions_rows(ModelMetadata(n), <<0, 1>>,
                                       <<"P1", "P2">>, <<"g1", "7", "NA">>)

\* --genes: the number of genes an edge page shows (20 when not given)
KeepNGenes == {1, 20}

webFixed == <<call, ret, lib, crosstalk_correction, arguments,
              weight_matrices, tasks, out, results, files>>

(* environ: the final network file, the networks directory's listing (a    *)
(* file is named by its model number) and each model's network file.       *)
WebInit ==
    /\ pc = "web_setup"
    /\ environ \in [network_file : FinalNetworks,
                    listdir : Orderings(0..(MaxModels - 1)),
                    networks : [0..(MaxModels - 1) -> ModelNetworks]]
    /\ call = <<>>
    /\ ret = <<>>
    /\ lib = <<>>
    /\ crosstalk_correction = None
    /\ arguments = <<>>
    /\ config = <<>>
    /\ weight_matrices = <<>>
    /\ tasks = <<>>
    /\ out = <<>>
    /\ results = <<>>
    /\ files = <<>>
    /\ error = ""
    /\ db = <<>>

(* lines 126-201: the collections are emptied, the pathways inserted in    *)
(* the order the definitions map yields them, and the final network read.  *)
SetupDb ==
    /\ pc = "web_setup"
    /\ \E definition_order \in Orderings(WebPathways) :
         /\ db' = [pathways |-> pathway_info_list(WebPathwayDefinitions,
                                                  definition_order),
                   network_edges |-> <<>>,
                   network_feature_signatures |-> <<>>,
                   network_feature_pathways |-> <<>>,
                   pathcore_edge_data |-> <<>>]
         /\ config' = [pathway |-> definition_order[Len(definition_order)],
                       edge_pathways_set |->
                           edge_pathways(environ.network_file),
                       network_num |-> 0]
    /\ pc' = "web_networks"
    /\ UNCHANGED <<webFixed, environ, error>>

(* Collection.insert_many(documents, ordered=True): pymongo raises         *)
(* TypeError for an empty list.  A step of a pass is skipped once an       *)
(* earlier step of the pass has raised.                                    *)
insert_many(state, collection, documents) ==
    IF state.raised # "" THEN state
    ELSE IF documents = <<>>
      THEN [state EXCEPT !.raised = "TypeError: documents must be a non-empty list"]
      ELSE [state EXCEPT !.database[collection] = @ \o documents]

(* lines 205-258: one pass of `for network_num, network_filename in        *)
(* enumerate(os.listdir(networks_directory))`.  The network file read is   *)
(* the one the listing yields; the metadata files read are those numbered  *)
(* network_num.                                                            *)
network_pass(database, network_num, model, networks, edge_pathways_set, pathway) ==
    LET current_network_edges == networks[model]
        metadata_feature_signatures ==
            read_table(SignaturesFile(network_num), SignatureColumns)
        metadata_feature_pathways ==
            read_table(PathwaysFile(network_num), PathwayColumns)
        kept == keep_network_edges(current_network_edges, edge_pathways_set,
                                   network_num)
        start == [raised |-> kept.raised, database |-> database]
        edges_in == insert_many(start, "network_edges", kept.documents)
        signatures_in ==
            insert_many(edges_in, "network_feature_signatures",
                signature_documents(metadata_feature_signatures, network_num,
                                    gene_to_object_id))
    IN  insert_many(signatures_in, "network_feature_pathways",
            pathway_documents(metadata_feature_pathways, network_num,
                              pathway, pathway_to_object_id,
                              gene_to_object_id))

InsertNetwork ==
    /\ pc = "web_networks"
    /\ config.network_num < Len(environ.listdir)
    /\ LET after == network_pass(db, config.network_num,
                                 environ.listdir[config.network_num + 1],
                                 environ.networks, config.edge_pathways_set,
                                 config.pathway)
       IN  /\ db' = after.database
           /\ IF after.raised # ""
                THEN Raise(after.raised) /\ UNCHANGED config
                ELSE /\ config' = [config EXCEPT !.network_num = @ + 1]
                     /\ UNCHANGED <<pc, error>>
    /\ UNCHANGED <<webFixed, environ>>

(* web_initialize_db.py ends; web_edge_page_data.py starts (lines 292-298  *)
(* and EdgeInfo.__init__, lines 86-93).                                    *)
StartEdgePages ==
    /\ pc = "web_networks"
    /\ config.network_num = Len(environ.listdir)
    /\ LET n_networks ==
               Cardinality({d.network : d \in documents_of(db.network_edges)})
       IN  \E keep_n_genes \in KeepNGenes :
             config' = [n_features |-> MaxFeatures,
                        n_networks |-> n_networks,
                        n_total_features |-> MaxFeatures * n_networks,
                        keep_n_genes |-> keep_n_genes,
                        edge_info_list |-> <<>>]
                       @@ config
    /\ db' = [db EXCEPT !.pathcore_edge_data = <<>>]
    /\ pc' = "edge_pages"
    /\ UNCHANGED <<webFixed, environ, error>>

(* lines 301-306: one pass of `for index, row in network.iterrows()`.     *)
(* gene_ids is the order in which Python iterates over a set of gene ids.  *)
EdgePage ==
    /\ pc = "edge_pages"
    /\ Len(config.edge_info_list) < Len(environ.network_file)
    /\ \E gene_ids \in Orderings({gene_to_object_id[gene] : gene \in Genes}) :
         LET row == environ.network_file[Len(config.edge_info_list) + 1]
             edge_info == get_edge_info(db, config.n_total_features,
                                        config.keep_n_genes, row.pw0, row.pw1,
                                        gene_ids)
         IN  IF edge_info.raised # ""
               THEN Raise(edge_info.raised) /\ UNCHANGED config
               ELSE /\ config' =
                         [config EXCEPT
                            !.edge_info_list =
                                Append(@, [edge |-> <<row.pw0, row.pw1>>,
                                           weight_odds_ratio |-> row.weight,
                                           networks |-> edge_info.networks]
                                          @@ edge_info.page)]
                    /\ UNCHANGED <<pc, error>>
    /\ UNCHANGED <<webFixed, environ, db>>

\* line 307: db.pathcore_edge_data.insert_many(edge_info_list)
InsertEdgePages ==
    /\ pc = "edge_pages"
    /\ Len(config.edge_info_list) = Len(environ.network_file)
    /\ LET after == insert_many([raised |-> "", database |-> db],
                                "pathcore_edge_data", config.edge_info_list)
       IN  /\ db' = after.database
           /\ IF after.raised # ""
                THEN Raise(after.raised)
                ELSE pc' = "web_done" /\ UNCHANGED error
    /\ UNCHANGED <<webFixed, environ, config>>

WebNext ==
    \/ SetupDb
    \/ InsertNetwork
    \/ StartEdgePages
    \/ EdgePage
    \/ InsertEdgePages

WebSpec == WebInit /\ [][WebNext]_vars

\* ================================================================
\* EdgeSpec: EdgeInfo.get_edge_info on a drawn database
\* ================================================================

(* What web_initialize_db.py stored for one network: the documents of its  *)
(* kept edges (at least one, or insert_many raises) and the signature of   *)
(* each of its features, the features of even and of odd number alike.     *)
EdgeDocuments ==
    {<<[pw0 |-> "P1", pw1 |-> "P2", features |-> <<0>>]>>,
     <<[pw0 |-> "P1", pw1 |-> "P2", features |-> <<0, 1>>]>>,
     <<[pw0 |-> "P2", pw1 |-> "P3", features |-> <<0>>]>>}
FeatureSignatures ==
    {<<{"g1", "7", "NA"}, {}>>, <<{"g1", "7"}, {"g1", "7"}>>,
     <<{"g1"}, {"7"}>>}
StoredNetworks == [edges : EdgeDocuments, signatures : FeatureSignatures]

\* the documents of network_edges and network_feature_signatures
RECURSIVE stored_edges(_, _)
stored_edges(networks, network_num) ==
    IF networks = <<>> THEN <<>>
    ELSE [i \in DOMAIN Head(networks).edges |->
            LET edge == Head(networks).edges[i]
            IN  [edge     |-> <<pathway_to_object_id[edge.pw0],
                                pathway_to_object_id[edge.pw1]>>,
                 features |-> edge.features,
                 weight   |-> Len(edge.features),
                 network  |-> network_num]]
         \o stored_edges(Tail(networks), network_num + 1)

RECURSIVE stored_signatures(_, _)
stored_signatures(networks, network_num) ==
    IF networks = <<>> THEN <<>>
    ELSE [i \in 1..MaxFeatures |->
            LET positive == Head(networks).signatures[2 - (i % 2)]
            IN  [network |-> network_num,
                 feature |-> i - 1,
                 positive_signature |->
                     convert_to_gene_object_ids(
                         [type |-> "set", value |-> positive],
                         gene_to_object_id),
                 negative_signature |-> <<>>]]
         \o stored_signatures(Tail(networks), network_num + 1)

\* --genes, as the runs of this specification give it
EdgeKeepNGenes == {0, 1, 2, 20}

(* db after web_initialize_db.py has stored 0..MaxModels networks, and     *)
(* EdgeInfo.__init__ (lines 86-93).                                        *)
EdgeInit ==
    /\ pc = "edge_call"
    /\ \E networks \in UNION {[1..k -> StoredNetworks] : k \in 0..MaxModels} :
         /\ db = [pathways |-> pathway_info_list(WebPathwayDefinitions,
                                                 <<"P1", "P2", "P3">>),
                  network_edges |-> stored_edges(networks, 0),
                  network_feature_signatures |->
                      stored_signatures(networks, 0)]
         /\ \E keep_n_genes \in EdgeKeepNGenes :
              config = [n_features |-> MaxFeatures,
                        n_networks |-> Len(networks),
                        n_total_features |-> MaxFeatures * Len(networks),
                        keep_n_genes |-> keep_n_genes]
    /\ call = <<>>
    /\ ret = <<>>
    /\ lib = <<>>
    /\ crosstalk_correction = None
    /\ arguments = <<>>
    /\ environ = <<>>
    /\ weight_matrices = <<>>
    /\ tasks = <<>>
    /\ out = <<>>
    /\ results = <<>>
    /\ files = <<>>
    /\ error = ""

\* line 302: compute_edge_info.get_edge_info(row["pw0"], row["pw1"])
CallGetEdgeInfo ==
    /\ pc = "edge_call"
    /\ \E row \in {<<"P1", "P2">>, <<"P2", "P3">>},
          gene_ids \in Orderings({gene_to_object_id[gene] : gene \in Genes}) :
         /\ call' = [pw0 |-> row[1], pw1 |-> row[2], gene_ids |-> gene_ids]
         /\ ret' = get_edge_info(db, config.n_total_features,
                                 config.keep_n_genes, row[1], row[2], gene_ids)
    /\ pc' = "edge_done"
    /\ UNCHANGED <<lib, crosstalk_correction, arguments, environ, config,
                   weight_matrices, tasks, out, results, files, error, db>>

EdgeNext == CallGetEdgeInfo

EdgeSpec == EdgeInit /\ [][EdgeNext]_vars

\* ================================================================
\* MetaSpec: one model's metadata, written and read back
\* ================================================================

\* the metadata dict the enrichment of one feature returns
MetadataInfos ==
    {[positive_signature  |-> positive,
      negative_signature  |-> negative,
      pathway_definitions |-> [P1 |-> positive, P2 |-> negative]] :
        positive \in SUBSET Genes, negative \in {{}, {"g1"}}}

MetaInit ==
    /\ pc = "meta_write"
    /\ call \in [0..(MaxFeatures - 1) -> MetadataInfos]
    /\ ret = <<>>
    /\ lib = <<>>
    /\ crosstalk_correction = None
    /\ MainIdle

\* lines 359-385 of build_co_occurrence_network.py, for model number 0
WriteMetadata ==
    /\ pc = "meta_write"
    /\ \E ranking \in Orderings(Genes) :
         LET features == [i \in 1..MaxFeatures |-> i - 1]
             metadata_file(partial_filename, rows) ==
                 [directory |-> "metadata",
                  name      |-> <<"0", "_", partial_filename, "_",
                                  METADATA_FILE_ENDS_WITH>>,
                  rows      |-> rows]
         IN  files' =
               <<metadata_file("FEATURE_SIGNATURES",
                     gene_signatures_rows(call, features, ranking)),
                 metadata_file("FEATURE_PATHWAYS",
                     signature_pathway_definitions_rows(
                         call, features, <<"P1", "P2">>, ranking))>>
    /\ pc' = "meta_read"
    /\ UNCHANGED <<call, ret, lib, crosstalk_correction, arguments, environ,
                   config, weight_matrices, tasks, out, results, error, db>>

(* lines 212-215 and 233-258 of web_initialize_db.py, for network 0: the   *)
(* two metadata files are read and their rows inserted.                    *)
ReadBackMetadata ==
    /\ pc = "meta_read"
    /\ \E pathway \in {"P1", "P2"} :
         LET metadata_feature_signatures ==
                 read_table(files[1].rows, SignatureColumns)
             metadata_feature_pathways ==
                 read_table(files[2].rows, PathwayColumns)
         IN  db' = [network_feature_signatures |->
                        signature_documents(metadata_feature_signatures, 0,
                                            gene_to_object_id),
                    network_feature_pathways |->
                        pathway_documents(metadata_feature_pathways, 0,
                                          pathway, pathway_to_object_id,
                                          gene_to_object_id)]
    /\ pc' = "meta_done"
    /\ UNCHANGED <<call, ret, lib, crosstalk_correction, arguments, environ,
                   config, weight_matrices, tasks, out, results, files,
                   error>>

MetaNext == WriteMetadata \/ ReadBackMetadata

MetaSpec == MetaInit /\ [][MetaNext]_vars

\* ================================================================
\* ExampleSpec: process() and the network on the five-gene example, with
\* the enrichment test computed
\* ================================================================

(* pathcore's enrichment without overlap correction: for each side of the  *)
(* signature, a one-sided Fisher exact test of the signature against every *)
(* pathway, the p-values corrected together by Benjamini-Hochberg, and the *)
(* pathways below alpha kept.  A p-value is the pair <<numerator,          *)
(* denominator>> of a fraction; alpha is counted in hundredths.            *)
RECURSIVE binomial(_, _)
binomial(n, k) ==
    IF k < 0 \/ k > n THEN 0
    ELSE IF k = 0 THEN 1
    ELSE (binomial(n - 1, k - 1) * n) \div k

\* P(at least `both` genes of the signature are in the pathway)
fisher_exact_greater(both, in_signature_not_definition, in_definition_not_signature, neither) ==
    LET in_signature == both + in_signature_not_definition
        in_definition == both + in_definition_not_signature
        n_genes == in_signature + in_definition_not_signature + neither
        tail == {x \in both..in_signature : x <= in_definition}
        term(x) == binomial(in_definition, x)
                     * binomial(n_genes - in_definition, in_signature - x)
    IN  <<SumSeq([i \in 1..Cardinality(tail) |-> term(both + i - 1)]),
          binomial(n_genes, in_signature)>>

\* the p-value of each pathway for one side of the signature
single_side_pathway_enrichment(pathway_definitions, gene_signature, n_genes) ==
    [pathway \in DOMAIN pathway_definitions |->
        LET definition == pathway_definitions[pathway]
            both == Cardinality(definition \cap gene_signature)
            in_definition_not_signature == Cardinality(definition) - both
            in_signature_not_definition == Cardinality(gene_signature) - both
        IN  fisher_exact_greater(both, in_signature_not_definition,
                in_definition_not_signature,
                n_genes - both - in_definition_not_signature
                        - in_signature_not_definition)]

\* p <= q for two fractions
at_most(p, q) == p[1] * q[2] <= q[1] * p[2]

\* is p at most alpha * rank / m?
below_threshold_unscaled(p, alpha, rank, m) ==
    p[1] * m <= alpha * rank * p[2]

below_threshold(p, alpha, rank, m) ==
    100 * p[1] * m <= alpha * rank * p[2]

(* Benjamini-Hochberg at level alpha: the pathways whose p-value is at     *)
(* most the largest p-value that is within alpha * rank / m.               *)
fdr_bh(pvalues, alpha) ==
    LET m == Cardinality(DOMAIN pvalues)
        rank(pathway) ==
            Cardinality({other \in DOMAIN pvalues :
                            at_most(pvalues[other], pvalues[pathway])})
    IN  {pathway \in DOMAIN pvalues :
            \E other \in DOMAIN pvalues :
                /\ at_most(pvalues[pathway], pvalues[other])
                /\ below_threshold(pvalues[other], alpha, rank(other), m)}

\* the significant pathways of one side, as rows in the order of `pathways`
significant_rows(pathway_definitions, pathways, gene_signature, n_genes, alpha) ==
    IF gene_signature = {} THEN <<>>
    ELSE LET tested == {pathway \in DOMAIN pathway_definitions :
                           pathway_definitions[pathway] # {}}
             pvalues == single_side_pathway_enrichment(
                            [pathway \in tested |->
                                pathway_definitions[pathway]],
                            gene_signature, n_genes)
             kept == fdr_bh(pvalues, alpha)
         IN  listed(kept, pathways)

\* what the enrichment of a feature returns: (None, {}) or a table
computed_enrichment(feature_weight_vector, pathway_definitions, pathways, partial_function_signature, alpha) ==
    LET signature == apply_signature(partial_function_signature,
                                     feature_weight_vector)
        n_genes == Len(feature_weight_vector)
    IN  IF signature[1] \cup signature[2] = {}
          THEN [kind |-> "none", rows |-> <<>>]
          ELSE [kind |-> "table",
                rows |-> significant_rows(pathway_definitions, pathways,
                                          signature[1], n_genes, alpha)
                         \o significant_rows(pathway_definitions, pathways,
                                             signature[2], n_genes, alpha)]

\* the example: five genes, two pathways sharing the third gene
ExamplePathwayDefinitions == [P1 |-> {1, 2, 3}, P2 |-> {3, 4, 5}]
ExampleGenes ==
    UNION {ExamplePathwayDefinitions[pathway] :
              pathway \in DOMAIN ExamplePathwayDefinitions}
ExampleVectors == [1..Cardinality(ExampleGenes) -> {0, 2}]

\* the NMF rule with std 0.05: the genes of weight 2 of a vector with both
ExampleSignature == define_gene_signature("define_NMF_gene_signature", "0.05")

\* alpha, in hundredths
ExampleAlphas == {float("0.05"), 50}

\* the enrichment function, computed for every vector of the example
ExampleLib(alpha) ==
    [key \in ExampleVectors \X {"pathway_enrichment_no_overlap_correction"} |->
        computed_enrichment(key[1], ExamplePathwayDefinitions,
                            <<"P1", "P2">>, ExampleSignature, alpha)]

ExampleInit ==
    /\ pc = "example_call"
    /\ call \in [current_weight_matrix :
                    {"example"} \X
                    {[i \in 1..2 |-> [feature |-> i - 1, vector |-> vs[i]]] :
                        vs \in [1..2 -> ExampleVectors]},
                 alpha : ExampleAlphas,
                 overlap_correction : {FALSE},
                 correct_all_genes : {TRUE},
                 metadata : {FALSE}]
    /\ lib = ExampleLib(call.alpha)
    /\ ret = <<>>
    /\ crosstalk_correction = Some(FALSE)
    /\ MainIdle

\* process() on the example's weight matrix
CallExample ==
    /\ pc = "example_call"
    /\ ret' = process(call.current_weight_matrix, ExamplePathwayDefinitions,
                      ExampleSignature, call.alpha, call.overlap_correction,
                      call.correct_all_genes, call.metadata)
    /\ pc' = "example_network"
    /\ UNCHANGED <<call, lib, crosstalk_correction, mainVars>>

\* lines 351-353 on the table process() returned
BuildExampleNetwork ==
    /\ pc = "example_network"
    /\ ret.raised = ""
    /\ ret' = [network |-> CoNetwork(Len(call.current_weight_matrix[2]),
                                     ret.significant_pathways)] @@ ret
    /\ pc' = "example_done"
    /\ UNCHANGED <<call, lib, crosstalk_correction, mainVars>>

ExampleNext == CallExample \/ BuildExampleNetwork

ExampleSpec == ExampleInit /\ [][ExampleNext]_vars

\* ================================================================
\* constants/shorten_pathway_names.py, and ShortenSpec: two pathway names
\* shortened by a registered function
\* ================================================================

(* A pathway name is the sequence of its words and separator characters.   *)
(* No word below is spelled by other words, so two sequences are equal     *)
(* exactly when the strings are.                                           *)
MaxNameLen == 3

\* str.strip(): leading and trailing blanks removed
RECURSIVE lstrip(_)
lstrip(string) ==
    IF string # <<>> /\ Head(string) = " " THEN lstrip(Tail(string))
    ELSE string

RECURSIVE rstrip(_)
rstrip(string) ==
    IF string # <<>> /\ string[Len(string)] = " "
      THEN rstrip(SubSeq(string, 1, Len(string) - 1))
      ELSE string

strip(string) == rstrip(lstrip(string))

\* the positions at which sub occurs in string (`in`, str.index)
occurrences(string, sub) ==
    {k \in 1..(Len(string) - Len(sub) + 1) :
        SubSeq(string, k, k + Len(sub) - 1) = sub}

\* str.split(" ", 1): at most one split, at the first blank
split_once(string, sep) ==
    IF \A k \in DOMAIN string : string[k] # sep THEN <<string>>
    ELSE LET k == CHOOSE i \in DOMAIN string :
                     /\ string[i] = sep
                     /\ \A j \in 1..(i - 1) : string[j] # sep
         IN  <<SubSeq(string, 1, k - 1), SubSeq(string, k + 1, Len(string))>>

KEGG_REMOVE_SUFFIX == <<"-", " ", "Pseudomonas", " ", "aeruginosa", " ", "PAO1">>

\* lines 9-22
paeruginosa_shorten_kegg(pathway_name) ==
    LET split_label == split_once(pathway_name, " ")
        pathway_short == IF Len(split_label) > 1 THEN split_label[2]
                                                 ELSE split_label[1]
        found == occurrences(pathway_short, KEGG_REMOVE_SUFFIX)
    IN  IF found # {}
          THEN LET remove_from_index == CHOOSE k \in found :
                                           \A j \in found : k <= j
               IN  SubSeq(pathway_short, 1, remove_from_index - 1) \o <<"PAO1">>
          ELSE strip(pathway_short)

\* lines 25-35
tcga_shorten_pid(pathway_name) ==
    LET split_on_underscores == split(pathway_name, "_")
        n == Len(split_on_underscores)
    IN  IF split_on_underscores[n] = <<"PATHWAY">>
          THEN join(" ", SubSeq(split_on_underscores, 1, n - 1))
          ELSE join(" ", split_on_underscores)

\* SHORTEN_PATHWAY_NAMES[key](pathway_name)
shorten_pathway_name(key, pathway_name) ==
    IF SHORTEN_PATHWAY_NAMES[key] = "paeruginosa_shorten_kegg"
      THEN paeruginosa_shorten_kegg(pathway_name)
      ELSE tcga_shorten_pid(pathway_name)

\* the names drawn for each function
Strings(alphabet) == UNION {[1..n -> alphabet] : n \in 1..MaxNameLen}
KeggNames ==
    {name \o suffix : name \in Strings({"x", "y", " "}),
                      suffix \in {<<>>, <<" ">> \o KEGG_REMOVE_SUFFIX}}
PidNames == Strings({"X", "_", " ", "PATHWAY"})
ShortenNames(key) == IF key = "PAO1_KEGG" THEN KeggNames ELSE PidNames

ShortenInit ==
    /\ pc = "shorten_call"
    /\ \E key \in DOMAIN SHORTEN_PATHWAY_NAMES :
         \E first, second \in ShortenNames(key) :
            /\ first # second
            /\ call = [key |-> key, pathways |-> <<first, second>>]
    /\ ret = <<>>
    /\ lib = <<>>
    /\ crosstalk_correction = None
    /\ MainIdle

(* lines 179-191 of web_initialize_db.py (and load_pathway_definitions     *)
(* with shorten_pathway_names, line 307 of the analysis script): each      *)
(* pathway of the definitions file is shortened and becomes a key of the   *)
(* map.                                                                    *)
ShortenPathways ==
    /\ pc = "shorten_call"
    /\ LET shortened == [i \in DOMAIN call.pathways |->
                            shorten_pathway_name(call.key, call.pathways[i])]
       IN  ret' = [shortened |-> shortened,
                   pathway_to_object_id |->
                       [pathway \in {shortened[i] : i \in DOMAIN shortened} |->
                           CHOOSE i \in DOMAIN shortened :
                              /\ shortened[i] = pathway
                              /\ \A j \in DOMAIN shortened :
                                    shortened[j] = pathway => j <= i]]
    /\ pc' = "shorten_done"
    /\ UNCHANGED <<call, lib, crosstalk_correction, mainVars>>

ShortenNext == ShortenPathways

ShortenSpec == ShortenInit /\ [][ShortenNext]_vars

\* ================================================================
\* Properties
\* ================================================================

Started == {i \in DOMAIN tasks : tasks[i] # "queued"}

(* C1: once parallel(...) has returned, results holds exactly one entry    *)
(* for every submitted model, each filename once, and each entry's         *)
(* significant-pathways table is the one a sequential call of process()    *)
(* on that model gives with the run's configuration, whatever n_cores is;  *)
(* and a pool whose calls all return never ends the run with an error.     *)
C1_FanOutReturnsEveryModelOnce ==
    /\ pc \in {"write_results", "done"} =>
         /\ Len(results) = Len(weight_matrices)
         /\ \A i \in DOMAIN weight_matrices :
              Cardinality({k \in DOMAIN results :
                             results[k].filename = weight_matrices[i][1]}) = 1
         /\ \A k \in DOMAIN results :
              \E i \in DOMAIN weight_matrices :
                 /\ results[k].filename = weight_matrices[i][1]
                 /\ results[k].significant_pathways =
                      process_model(weight_matrices[i]).significant_pathways
    /\ (pc = "failed" /\ tasks # <<>>) =>
         \E i \in DOMAIN weight_matrices :
            process_model(weight_matrices[i]).raised # ""

C1_Witness ==
    /\ pc = "write_results"
    /\ Len(results) >= 2
    /\ config.n_cores >= 2
    /\ \A k \in DOMAIN results : results[k].significant_pathways # <<>>

(* C2: when the run has ended and the processing of some model raised,     *)
(* every model whose processing does not raise has its significant-        *)
(* pathways file and its network file among the files written.             *)
C2_FailureIsolatedToItsModel ==
    (pc \in {"done", "failed"} /\ \E i \in DOMAIN tasks : tasks[i] = "raised") =>
        \A i \in DOMAIN weight_matrices :
            process_model(weight_matrices[i]).raised = "" =>
                /\ \E k \in DOMAIN files :
                      /\ files[k].model = weight_matrices[i][1]
                      /\ files[k].directory = "output"
                /\ \E k \in DOMAIN files :
                      /\ files[k].model = weight_matrices[i][1]
                      /\ files[k].directory = "networks"

(* C3: a task has started only if every listed weight matrix is loaded; a  *)
(* file has been written only if every submitted task has returned; tasks  *)
(* run only during the fan-out; and no step that loads a matrix or writes  *)
(* a file is taken while a task is running.                                *)
C3_Phases ==
    /\ Started # {} => Len(weight_matrices) = Len(environ.listdir)
    /\ files # <<>> =>
         /\ Len(tasks) = Len(weight_matrices)
         /\ \A i \in DOMAIN tasks : tasks[i] = "done"
    /\ Running # {} => pc = "fan_out"

C3_StrictlyPhased ==
    /\ []C3_Phases
    /\ [][(weight_matrices' # weight_matrices \/ files' # files) =>
             (Running = {} /\ Running' = {})]_vars
    /\ [][weight_matrices' # weight_matrices => Started = {}]_vars

C3_Witness ==
    /\ files # <<>>
    /\ Len(tasks) >= 2
    /\ config.n_cores >= 2

(* C4: a --signature name that is not a key of GENE_SIGNATURE_DEFINITIONS  *)
(* ends the run with an error while nothing is listed, loaded or           *)
(* submitted; for a registered name the function bound to which_signature, *)
(* and wrapped in partial_function_signature, is the registry's entry.     *)
C4_UnknownSignatureFailsFirst ==
    "--signature" \in DOMAIN arguments =>
        IF arguments["--signature"] \notin DOMAIN GENE_SIGNATURE_DEFINITIONS
          THEN /\ pc = "failed"
               /\ error = "ValueError: gene signature definition"
               /\ "listdir" \notin DOMAIN environ
               /\ weight_matrices = <<>>
               /\ tasks = <<>>
          ELSE "which_signature" \in DOMAIN config =>
                 /\ config.which_signature =
                      GENE_SIGNATURE_DEFINITIONS[arguments["--signature"]]
                 /\ config.partial_function_signature.func =
                      GENE_SIGNATURE_DEFINITIONS[arguments["--signature"]]

C4_Witness ==
    /\ pc = "failed"
    /\ "--signature" \in DOMAIN arguments
    /\ arguments["--signature"] = "PCA"

(* C5: no model task is started in a run whose alpha is not positive.      *)
(* (The claim also names a gene universe of zero; the part about alpha is  *)
(* the one stated here.)                                                   *)
C5_InvalidAlphaRejectedBeforeFanOut ==
    ("alpha" \in DOMAIN config /\ config.alpha <= 0) => Started = {}

\* ---------------------------------------------------------------- SigSpec

ZeroVariance(v) == \A g, h \in DOMAIN v : v[g] = v[h]

(* C6: for a positive std (the claim says every std), the eADAGE rule's    *)
(* positive and negative sets are disjoint, and every gene in neither set  *)
(* has, where the standard deviation is defined, a weight strictly between *)
(* mean - std*sigma and mean + std*sigma.                                  *)
C6_eADAGESetsDisjoint ==
    ("eADAGE" \in DOMAIN ret /\ float(call.std) > 0) =>
        LET v == call.feature_weight_vector
            positive == ret["eADAGE"][1]
            negative == ret["eADAGE"][2]
        IN  /\ positive \cap negative = {}
            /\ \A g \in DOMAIN v \ (positive \cup negative) :
                  StdIsNaN(v) \/
                  /\ ~AtLeastCutoff(v, Dev(v, g), float(call.std))
                  /\ ~AtLeastCutoff(v, -Dev(v, g), float(call.std))

(* C7: for a weight vector whose weights are all equal, each signature     *)
(* rule returns two empty sets (stated for a positive std, the values the  *)
(* rule is documented for).                                                *)
C7_ZeroVarianceGivesEmptySets ==
    \A name \in DOMAIN ret :
        (ZeroVariance(call.feature_weight_vector) /\ float(call.std) > 0)
            => ret[name] = <<{}, {}>>

(* C8: the NMF rule's positive set is the eADAGE rule's positive set for   *)
(* the same vector and std, and its negative set is empty.                 *)
C8_NMFIsPositiveTailOfeADAGE ==
    /\ "NMF" \in DOMAIN ret => ret["NMF"][2] = {}
    /\ ("NMF" \in DOMAIN ret /\ "eADAGE" \in DOMAIN ret) =>
          ret["NMF"][1] = ret["eADAGE"][1]

C8_Witness ==
    /\ "NMF" \in DOMAIN ret
    /\ "eADAGE" \in DOMAIN ret
    /\ ret["NMF"][1] # {}
    /\ ret["eADAGE"][2] # {}
    /\ ~ZeroVariance(call.feature_weight_vector)

\* --------------------------------------------------------------- ProcSpec

\* the enrichment function process() calls in the current state
FunctionUsed ==
    IF crosstalk_correction[1]
      THEN "pathway_enrichment_with_overlap_correction"
      ELSE "pathway_enrichment_no_overlap_correction"

CalledMatrix == call.current_weight_matrix[2]

(* C9: a call of process() that returns has tested every feature with the  *)
(* function its overlap_correction argument selects: with overlap          *)
(* correction when it is True, without when it is False.                   *)
C9_PathChosenByArgument ==
    (pc = "process_done" /\ ret.raised = "") =>
        /\ Len(ret.calls) = Len(CalledMatrix)
        /\ \A k \in DOMAIN ret.calls :
              ret.calls[k].function =
                  IF call.overlap_correction
                    THEN "pathway_enrichment_with_overlap_correction"
                    ELSE "pathway_enrichment_no_overlap_correction"

\* the columns whose enrichment yields no significant pathway
Insignificant ==
    {k \in DOMAIN CalledMatrix :
        LET o == lib[<<CalledMatrix[k].vector, FunctionUsed>>]
        IN  o.kind = "none" \/ (o.kind = "table" /\ o.rows = <<>>)}

RECURSIVE Without(_, _, _)
Without(columns, k, drop) ==
    IF columns = <<>> THEN <<>>
    ELSE (IF k \in drop THEN <<>> ELSE <<Head(columns)>>)
         \o Without(Tail(columns), k + 1, drop)

(* C10: when no enrichment call raises, process() returns; the table it    *)
(* returns has no row for a feature whose enrichment yields no significant *)
(* pathway, and is the table process() returns for the matrix without      *)
(* those features.                                                         *)
C10_InsignificantFeatureAddsNoRow ==
    (pc = "process_done" /\ crosstalk_correction # None) =>
        /\ (\A k \in DOMAIN CalledMatrix :
               lib[<<CalledMatrix[k].vector, FunctionUsed>>].kind # "raise")
             => ret.raised = ""
        /\ ret.raised = "" =>
             /\ \A k \in Insignificant :
                   \A r \in DOMAIN ret.significant_pathways :
                      ret.significant_pathways[r].feature
                          # CalledMatrix[k].feature
             /\ ret.significant_pathways =
                  process(<<call.current_weight_matrix[1],
                            Without(CalledMatrix, 1, Insignificant)>>,
                          PathwayDefinitions, DefaultSignature, float("0.05"),
                          call.overlap_correction, call.correct_all_genes,
                          call.metadata).significant_pathways

C10_Witness ==
    /\ pc = "process_done"
    /\ crosstalk_correction # None
    /\ ret.raised = ""
    /\ \E k \in Insignificant :
          lib[<<CalledMatrix[k].vector, FunctionUsed>>].kind = "none"
    /\ ret.significant_pathways # <<>>

\* every order of the columns of a weight matrix
Reorderings(columns) ==
    {[i \in DOMAIN columns |-> columns[p[i]]] :
        p \in {q \in [DOMAIN columns -> DOMAIN columns] :
                 \A i, j \in DOMAIN columns : i # j => q[i] # q[j]}}

RowSet(table) == {table[i] : i \in DOMAIN table}

\* process() with the arguments of the call, on another weight matrix
ProcessOn(weight_matrix) ==
    process(<<call.current_weight_matrix[1], weight_matrix>>,
            PathwayDefinitions, DefaultSignature, float("0.05"),
            call.overlap_correction, call.correct_all_genes, call.metadata)

(* C11: process() on the same columns in any other order returns exactly   *)
(* when the call returned, and then with the same set of (feature,         *)
(* pathway) rows and the same feature_metadata.                            *)
C11_FeatureOrderIrrelevant ==
    pc = "process_done" =>
        \A reordered \in Reorderings(CalledMatrix) :
            LET other == ProcessOn(reordered)
            IN  /\ other.raised = ret.raised
                /\ ret.raised = "" =>
                     /\ RowSet(other.significant_pathways) =
                        RowSet(ret.significant_pathways)
                     /\ other.feature_metadata = ret.feature_metadata

C11_Witness ==
    /\ pc = "process_done"
    /\ ret.raised = ""
    /\ Len(CalledMatrix) >= 2
    /\ DOMAIN ret.feature_metadata # {}
    /\ \E reordered \in Reorderings(CalledMatrix) :
          /\ ProcessOn(reordered).significant_pathways
                # ret.significant_pathways
          /\ ProcessOn(reordered).significant_pathways # <<>>

\* ------------------------------------------------------------------- Spec

(* C12: in a run without --metadata, every result process() returns has an *)
(* empty feature_metadata and no file is written to the metadata           *)
(* directory.                                                              *)
C12_MetadataOnlyWhenRequested ==
    ("metadata" \in DOMAIN config /\ ~config.metadata) =>
        /\ \A i \in DOMAIN out :
              out[i] # None => out[i][1].feature_metadata = <<>>
        /\ \A k \in DOMAIN results : results[k].feature_metadata = <<>>
        /\ \A k \in DOMAIN files : files[k].directory # "metadata"

C12_Witness ==
    /\ pc = "done"
    /\ ~config.metadata
    /\ \E k \in DOMAIN results : results[k].significant_pathways # <<>>
    /\ \E k \in DOMAIN files : files[k].directory = "networks"

\* ---------------------------------------------------------------- NetSpec

\* the edges of a network that list a feature, and how often one lists it
EdgesListing(network, feature) ==
    {e \in DOMAIN network.edges :
        \E i \in DOMAIN network.edges[e] : network.edges[e][i] = feature}

TimesListed(network, e, feature) ==
    Cardinality({i \in DOMAIN network.edges[e] :
                    network.edges[e][i] = feature})

(* C13: in the network built from a table, a feature with m distinct       *)
(* significant pathways is listed by exactly m(m-1)/2 edges, once by each, *)
(* the edges being the pairs of its pathways; a feature with one           *)
(* significant pathway is listed by no edge.                               *)
C13_PairsOfCoSignificantPathways ==
    pc = "net_merge" =>
        \A model \in Namespaces : \A feature \in 0..(MaxFeatures - 1) :
            LET network == ret.networks[model]
                m == Cardinality(pathways_in_feature(call[model], feature))
                listing == EdgesListing(network, feature)
            IN  /\ 2 * Cardinality(listing) = m * (m - 1)
                /\ \A e \in listing :
                      /\ TimesListed(network, e, feature) = 1
                      /\ Cardinality(e) = 2
                      /\ e \subseteq pathways_in_feature(call[model], feature)

C13_Witness ==
    /\ pc = "net_merge"
    /\ \E model \in Namespaces :
          /\ Cardinality(pathways_in_feature(call[model], 0)) = 3
          /\ Cardinality(EdgesListing(ret.networks[model], 0)) = 3
          /\ Cardinality(pathways_in_feature(call[model], 1)) = 1
          /\ EdgesListing(ret.networks[model], 1) = {}

\* the contributing features of an edge, as a set
FeatureSet(network, e) ==
    {network.edges[e][i] : i \in DOMAIN network.edges[e]}

\* the same edges, contributing-feature sets, weights and feature total
SameNetwork(a, b) ==
    /\ a.n_features = b.n_features
    /\ DOMAIN a.edges = DOMAIN b.edges
    /\ \A e \in DOMAIN a.edges :
          /\ FeatureSet(a, e) = FeatureSet(b, e)
          /\ edge_weight(a, e) = edge_weight(b, e)

\* every edge and contributing feature of a is in b
Within(a, b) ==
    /\ DOMAIN a.edges \subseteq DOMAIN b.edges
    /\ \A e \in DOMAIN a.edges :
          /\ FeatureSet(a, e) \subseteq FeatureSet(b, e)
          /\ edge_weight(a, e) <= edge_weight(b, e)

Net(m) == namespaced(ret.networks[m], m)

C14_MergeAlgebra ==
    pc = "net_merge" =>
        /\ \A x, y \in Namespaces :
              (ret.order = <<>> /\ x # y) =>
                /\ SameNetwork(aggregate(Net(x), Net(y)),
                               aggregate(Net(y), Net(x)))
                /\ Within(Net(x), aggregate(Net(x), Net(y)))
                /\ Within(Net(y), aggregate(Net(x), Net(y)))
        /\ \A x, y, z \in Namespaces :
              (ret.order = <<>> /\ x # y /\ y # z /\ x # z) =>
                SameNetwork(aggregate(aggregate(Net(x), Net(y)), Net(z)),
                            aggregate(Net(x), aggregate(Net(y), Net(z))))
        /\ Len(ret.order) = Cardinality(Namespaces) =>
              /\ SameNetwork(ret.merged,
                    aggregate(aggregate(Net("m0"), Net("m1")), Net("m2")))
              /\ \A e \in DOMAIN ret.merged.edges :
                    edge_weight(ret.merged, e) =
                        Cardinality(FeatureSet(ret.merged, e))

(* C14: merging the networks of models with disjoint feature namespaces    *)
(* gives the same edges, the same contributing-feature set and weight for  *)
(* each edge and the same feature total in every merge order and every     *)
(* grouping, and a merge step loses no edge and no contributing feature.   *)
C14_MergeCommutesAndAccumulates ==
    /\ []C14_MergeAlgebra
    /\ [][(pc = "net_merge" /\ pc' = "net_merge") =>
             Within(ret.merged, ret'.merged)]_vars

C14_Witness ==
    /\ pc = "net_merge"
    /\ ret.order = <<"m2", "m0", "m1">>
    /\ ret.merged # aggregate(aggregate(Net("m0"), Net("m1")), Net("m2"))
    /\ \E e \in DOMAIN ret.merged.edges : edge_weight(ret.merged, e) >= 3
    /\ \E e \in DOMAIN ret.merged.edges : e \notin DOMAIN ret.networks["m0"].edges

\* --------------------------------------------------------------- MetaSpec

\* a list of ObjectIds holds exactly one id for each gene of a set
OneIdPerGene(ids, gene_set) ==
    /\ Len(ids) = Cardinality(gene_set)
    /\ {ids[i] : i \in DOMAIN ids} = {ObjectId(gene) : gene \in gene_set}

(* C20: once a model's metadata files are written and read back, the       *)
(* document of every feature holds exactly one ObjectId for each gene of   *)
(* the feature's positive signature and of its negative signature, and     *)
(* nothing else.                                                           *)
C20_GeneSetsRoundTrip ==
    pc = "meta_done" =>
        \A i \in DOMAIN db.network_feature_signatures :
            LET document == db.network_feature_signatures[i]
                metadata_info == call[document.feature]
            IN  /\ OneIdPerGene(document.positive_signature,
                                metadata_info.positive_signature)
                /\ OneIdPerGene(document.negative_signature,
                                metadata_info.negative_signature)

\* ---------------------------------------------------------------- WebSpec

\* the pathway pairs of the rows of a network file, without their order
UnorderedEdges(rows) == {{rows[i].pw0, rows[i].pw1} : i \in DOMAIN rows}

\* the network numbers whose network file holds an edge, in either order
NetworksHolding(edge) ==
    {k \in 0..(Len(environ.listdir) - 1) :
        edge \in UnorderedEdges(environ.networks[environ.listdir[k + 1]])}

(* C15: once every network is inserted, each edge of a per-model network   *)
(* that is an edge of the final network, in either order of its two        *)
(* pathways, has a document in network_edges for that network; and the     *)
(* page of a final-network edge counts the networks that hold the edge in  *)
(* either order.                                                           *)
C15_EdgeIdentityIgnoresOrder ==
    /\ pc \in {"edge_pages", "web_done"} =>
         \A edge \in UnorderedEdges(environ.network_file) :
            \A k \in NetworksHolding(edge) :
               \E d \in documents_of(db.network_edges) :
                  /\ d.network = k
                  /\ {d.edge[1], d.edge[2]} =
                        {pathway_to_object_id[pathway] : pathway \in edge}
    /\ pc = "web_done" =>
         \A d \in documents_of(db.pathcore_edge_data) :
            documents_of(d.networks) =
                NetworksHolding({d.edge[1], d.edge[2]})

\* ------------------------------------------------------------ ExampleSpec

(* the run of the example: feature 0 with signature {A, B}, feature 1 with *)
(* signature {D, E}, alpha 0.05, no overlap correction                     *)
TheExample ==
    /\ pc = "example_done"
    /\ call.alpha = float("0.05")
    /\ call.current_weight_matrix[2][1].vector = <<2, 2, 0, 0, 0>>
    /\ call.current_weight_matrix[2][2].vector = <<0, 0, 0, 2, 2>>
    /\ apply_signature(ExampleSignature, <<2, 2, 0, 0, 0>>) = <<{1, 2}, {}>>
    /\ apply_signature(ExampleSignature, <<0, 0, 0, 2, 2>>) = <<{4, 5}, {}>>

(* C16, as claimed: in the example feature 0 is significant for P1 only,   *)
(* feature 1 for P2 only, and the network has no edge.                     *)
C16_ExampleAsClaimed ==
    TheExample =>
        /\ RowSet(ret.significant_pathways) =
              {[feature |-> 0, pathway |-> "P1"],
               [feature |-> 1, pathway |-> "P2"]}
        /\ DOMAIN ret.network.edges = {}

(* C16, amended: in the example neither feature is significant for any     *)
(* pathway (the smallest p-value of each feature is 3/10), and the network *)
(* has no edge.                                                            *)
C16_ExampleHasNoSignificantPathway ==
    TheExample =>
        /\ ret.significant_pathways = <<>>
        /\ DOMAIN ret.network.edges = {}
        /\ single_side_pathway_enrichment(ExamplePathwayDefinitions,
                                          {1, 2}, 5)["P1"] = <<3, 10>>

C16_Witness ==
    /\ TheExample
    /\ ret.raised = ""
    /\ Len(ret.calls) = 2

\* ------------------------------------------------------------------- Spec
\* the step of lines 297-309
ShortenSelected == pc = "select_shorten" /\ pc' # "select_shorten"

(* C18: --shorten is optional.  When it is not supplied the run goes on    *)
(* and loads the pathway definitions with no shortening function; when a   *)
(* registered name is supplied that function is used; an error is raised   *)
(* only for a supplied name that is not registered.                        *)
C18_ShortenIsOptional ==
    [][ShortenSelected =>
         LET shorten_function_key == arguments'["--shorten"]
         IN  /\ shorten_function_key = None =>
                  /\ pc' = "list_models"
                  /\ config'.shorten_pathway_names = None
             /\ /\ shorten_function_key # None
                /\ shorten_function_key[1] \in DOMAIN SHORTEN_PATHWAY_NAMES
                => /\ pc' = "list_models"
                   /\ config'.shorten_pathway_names =
                          SHORTEN_PATHWAY_NAMES[shorten_function_key[1]]
             /\ pc' = "failed" =>
                  /\ shorten_function_key # None
                  /\ shorten_function_key[1] \notin DOMAIN SHORTEN_PATHWAY_NAMES
       ]_vars

(* C19: the worker count is int(--n-cores) when --n-cores is a digit       *)
(* string and the number of cores minus one otherwise; it is at least 1,   *)
(* and no more models than that run at a time.                             *)
C19_WorkerCountPositive ==
    "n_cores" \in DOMAIN config =>
        /\ config.n_cores =
              IF isdigit(arguments["--n-cores"])
                THEN int(arguments["--n-cores"])
                ELSE environ.cpu_count - 1
        /\ config.n_cores >= 1
        /\ Cardinality(Running) <= config.n_cores

\* what a task of the pool reads
TaskInputs == <<weight_matrices, config, crosstalk_correction, lib>>

\* task i returns or raises in this step
Returns(i) == tasks[i] = "running" /\ tasks'[i] \in {"done", "raised"}

(* C21: a step in which a task runs process() leaves the pathway           *)
(* definitions, every weight matrix and the rest of the configuration as   *)
(* they were and changes nothing of another task; and in every             *)
(* interleaving what a task returned is what process() gives on that       *)
(* task's own weight matrix and the pathway definitions as loaded.         *)
C21_OwnOutputOnly ==
    \A i \in DOMAIN out :
        out[i] # None =>
            /\ config.pathway_definitions = PathwayDefinitions
            /\ weight_matrices[i][2] = FileMatrix(weight_matrices[i][1])
            /\ out[i][1] =
                 process(weight_matrices[i], PathwayDefinitions,
                         config.partial_function_signature, config.alpha,
                         crosstalk_correction[1], config.correct_all_genes,
                         config.metadata)

EnrichmentRows(k) ==
    LET o == lib[<<CalledMatrix[k].vector, FunctionUsed>>]
    IN  IF o.kind = "table" THEN o.rows ELSE <<>>

\* the pathways of the rows of a table tagged with a feature, in table order
RECURSIVE PathwaysTagged(_, _)
PathwaysTagged(table, feature) ==
    IF table = <<>> THEN <<>>
    ELSE (IF Head(table).feature = feature
            THEN <<Head(table).pathway>> ELSE <<>>)
         \o PathwaysTagged(Tail(table), feature)

(* C22: in the table process() returns, every row is tagged with a feature *)
(* of the weight matrix, and the rows tagged with a feature are the rows   *)
(* the enrichment of that feature returned, as many and the same.          *)
C22_RowsTaggedWithTheirFeature ==
    (pc = "process_done" /\ ret.raised = "") =>
        /\ \A r \in DOMAIN ret.significant_pathways :
              \E k \in DOMAIN CalledMatrix :
                 ret.significant_pathways[r].feature = CalledMatrix[k].feature
        /\ \A k \in DOMAIN CalledMatrix :
              PathwaysTagged(ret.significant_pathways,
                             CalledMatrix[k].feature) = EnrichmentRows(k)
        /\ Len(ret.significant_pathways) =
              SumSeq([k \in DOMAIN CalledMatrix |-> Len(EnrichmentRows(k))])

C22_Witness ==
    /\ pc = "process_done"
    /\ ret.raised = ""
    /\ Len(CalledMatrix) >= 2
    /\ EnrichmentRows(1) = <<>>
    /\ Len(EnrichmentRows(2)) = 2
    /\ Len(ret.significant_pathways) = 2

\* the features whose enrichment returned a table
FeaturesWithTable ==
    {CalledMatrix[k].feature :
        k \in {j \in DOMAIN CalledMatrix :
                 lib[<<CalledMatrix[j].vector, FunctionUsed>>].kind = "table"}}

(* C29: in a call of process() with metadata requested that returns, the   *)
(* keys of feature_metadata are features whose enrichment returned a       *)
(* table: a feature without a table has no recorded signature.             *)
C29_MetadataOnlyForFeaturesWithTable ==
    (pc = "process_done" /\ ret.raised = "" /\ call.metadata) =>
        /\ DOMAIN ret.feature_metadata \subseteq FeaturesWithTable
        /\ \A k \in DOMAIN CalledMatrix :
              lib[<<CalledMatrix[k].vector, FunctionUsed>>].kind = "none" =>
                  CalledMatrix[k].feature \notin DOMAIN ret.feature_metadata

C29_Witness ==
    /\ pc = "process_done"
    /\ ret.raised = ""
    /\ call.metadata
    /\ Len(CalledMatrix) >= 2
    /\ DOMAIN ret.feature_metadata # {}
    /\ \E k \in DOMAIN CalledMatrix :
          lib[<<CalledMatrix[k].vector, FunctionUsed>>].kind = "none"

\* --------------------------------------------------------------- EdgeSpec
\* the genes annotated to the edge of the call, and what line 133 counted
Annotated == DOMAIN edge_counts(db, call.pw0, call.pw1).genes_which_pathway
EdgeFeatures == edge_counts(db, call.pw0, call.pw1).n_features_contain_edge
Common(gene_id) ==
    edge_counts(db, call.pw0, call.pw1).count_gene_edge_common[gene_id]

(* the odds ratio of an annotated gene, as <<numerator, denominator>>:     *)
(* (count / n_features_contain_gene) / (n_features_contain_edge /          *)
(* n_total_features)                                                       *)
OddsRatio(gene_id) ==
    <<Common(gene_id) * config.n_total_features,
      n_features_contain_gene(db, gene_id) * EdgeFeatures>>

\* the genes whose odds ratio is defined and above 1
AboveOne ==
    {gene_id \in Annotated :
        /\ OddsRatio(gene_id)[2] > 0
        /\ OddsRatio(gene_id)[1] > OddsRatio(gene_id)[2]}

Returned == {gene_to_object_id[ret.returned[i].gene_name] : i \in DOMAIN ret.returned}

(* C23: when _edge_pathway_annotation_odds_ratios returns, it returns at   *)
(* most keep_n_genes entries, each for another gene and with that gene's   *)
(* odds ratio, which is above 1; the entries are in descending order of    *)
(* odds ratio; and a gene above 1 that is left out has an odds ratio no    *)
(* larger than any returned one, and is left out only when keep_n_genes    *)
(* entries are returned.                                                   *)
C23_LargestOddsRatiosAboveOne ==
    (pc = "edge_done" /\ ret.raised = "") =>
        /\ Len(ret.returned) <= config.keep_n_genes
        /\ Cardinality(Returned) = Len(ret.returned)
        /\ Returned \subseteq AboveOne
        /\ \A i \in DOMAIN ret.returned :
              /\ ret.returned[i].odds_ratio[1] > ret.returned[i].odds_ratio[2]
              /\ ret.returned[i].odds_ratio =
                    OddsRatio(gene_to_object_id[ret.returned[i].gene_name])
        /\ \A i, j \in DOMAIN ret.returned :
              i < j => ret.returned[i].odds_ratio[1] * ret.returned[j].odds_ratio[2]
                         >= ret.returned[j].odds_ratio[1] * ret.returned[i].odds_ratio[2]
        /\ \A omitted \in AboveOne \ Returned :
              /\ Len(ret.returned) = config.keep_n_genes
              /\ \A kept \in Returned :
                    OddsRatio(kept)[1] * OddsRatio(omitted)[2]
                        >= OddsRatio(omitted)[1] * OddsRatio(kept)[2]

C23_Witness ==
    /\ pc = "edge_done"
    /\ ret.raised = ""
    /\ Len(ret.returned) = 2
    /\ ret.returned[1].odds_ratio[1] * ret.returned[2].odds_ratio[2]
         > ret.returned[2].odds_ratio[1] * ret.returned[1].odds_ratio[2]
    /\ AboveOne \ Returned # {}

(* C26: get_edge_info never divides by zero: it returns for every edge and *)
(* every database, an edge no network holds and a database without         *)
(* networks included.                                                      *)
C26_NoDivisionByZero ==
    pc = "edge_done" => ret.raised = ""

\* ---------------------------------------------------------------- WebSpec
\* the documents of network_feature_pathways stored for a network, in order
PathwayDocuments(network_num) ==
    find(db.network_feature_pathways,
         {d \in documents_of(db.network_feature_pathways) :
             d.network = network_num})

\* the rows of the FEATURE_PATHWAYS file read for a network
PathwayRows(network_num) == read_table(PathwaysFile(network_num), PathwayColumns)

(* C24: every document of network_feature_pathways has as its pathway the  *)
(* object id of the pathway its own row of the FEATURE_PATHWAYS file       *)
(* names, whatever the order of the pathways in the definitions file.      *)
C24_PathwayOfItsOwnRow ==
    pc \in {"web_networks", "edge_pages", "web_done"} =>
        \A network_num \in 0..(config.network_num - 1) :
            /\ Len(PathwayDocuments(network_num)) = Len(PathwayRows(network_num))
            /\ \A i \in DOMAIN PathwayDocuments(network_num) :
                  PathwayDocuments(network_num)[i].pathway =
                      pathway_to_object_id[
                          PathwayRows(network_num)[i].pathway.value[1]]

\* the documents of a collection stored with a network number, in order
StoredFor(collection, network_num) ==
    find(db[collection],
         {d \in documents_of(db[collection]) : d.network = network_num})

(* C25: whatever order the listing of the networks directory has, the      *)
(* edges stored with a network number are those of the network file the    *)
(* analysis script wrote under that model number, and the signatures       *)
(* stored with it are those of that model's metadata file.                 *)
C25_NetworkNumberIsModelNumber ==
    pc \in {"web_networks", "edge_pages", "web_done"} =>
        \A network_num \in 0..(config.network_num - 1) :
            /\ environ.listdir[network_num + 1] = network_num
            /\ StoredFor("network_edges", network_num) =
                  keep_network_edges(environ.networks[network_num],
                                     config.edge_pathways_set,
                                     network_num).documents
            /\ StoredFor("network_feature_signatures", network_num) =
                  signature_documents(
                      read_table(SignaturesFile(network_num), SignatureColumns),
                      network_num, gene_to_object_id)

\* ------------------------------------------------------------ ShortenSpec
(* C28: a registered shorten function gives two distinct pathway names     *)
(* distinct shortened names, so each keeps its own key in the map.         *)
C28_ShortenedNamesDistinct ==
    pc = "shorten_done" =>
        /\ ret.shortened[1] # ret.shortened[2]
        /\ Cardinality(DOMAIN ret.pathway_to_object_id) = 2

\* ------------------------------------------------------------------- Spec
\* the path of a written file
Path(file) == <<file.directory, file.name>>

\* the files written to a directory for a model
FilesOf(directory, model) ==
    {k \in DOMAIN files :
        files[k].directory = directory /\ files[k].model = model}

(* C27: no two files written have the same path; the significant-pathways  *)
(* file whose path holds a model's file name holds the table process()     *)
(* gives for that model, and the network file written with it the network  *)
(* of that table; and when the run is done every model has exactly one     *)
(* significant-pathways file and one network file.                         *)
C27_OneFilePerModelAndPath ==
    /\ \A j, k \in DOMAIN files : j # k => Path(files[j]) # Path(files[k])
    /\ \A k \in DOMAIN files :
          \E i \in DOMAIN weight_matrices :
             LET table == process_model(weight_matrices[i]).significant_pathways
             IN  /\ files[k].model = weight_matrices[i][1]
                 /\ files[k].directory = "output" =>
                      /\ SubSeq(files[k].name, 3, Len(files[k].name)) =
                            replace(weight_matrices[i][1],
                                    config.substring_to_replace,
                                    OUTPUT_FILE_NAMING)
                      /\ files[k].content = table
                 /\ files[k].directory = "networks" =>
                      files[k].content = CoNetwork(config.n_features, table)
    /\ pc = "done" =>
         \A i \in DOMAIN weight_matrices :
            /\ Cardinality(FilesOf("output", weight_matrices[i][1])) = 1
            /\ Cardinality(FilesOf("networks", weight_matrices[i][1])) = 1

C27_Witness ==
    /\ pc = "done"
    /\ Len(weight_matrices) >= 2
    /\ Cardinality({files[k].content :
                      k \in {j \in DOMAIN files :
                               files[j].directory = "output"}}) >= 2

\* --------------------------------------------------------------- LiveSpec
\* the pool is open and no call of process() raises
AllTasksReturn ==
    /\ pc = "fan_out"
    /\ \A i \in DOMAIN weight_matrices :
          process_model(weight_matrices[i]).raised = ""

\* the run is over and every submitted model has its two files
AllOutputsWritten ==
    /\ pc = "done"
    /\ Len(results) = Len(tasks)
    /\ \A i \in DOMAIN weight_matrices :
          /\ FilesOf("output", weight_matrices[i][1]) # {}
          /\ FilesOf("networks", weight_matrices[i][1]) # {}

\* a call that is running can take its step whatever the other calls do
NoTaskWaits ==
    \A i \in DOMAIN tasks :
        (pc = "fan_out" /\ tasks[i] = "running")
        => \E returned \in {process_model(weight_matrices[i])} :
               ENABLED TaskReturns(i, returned)

(* C30: when every call of process() runs to its end, the run passes       *)
(* parallel(...) and writes the significant-pathways file and the network  *)
(* file of every submitted model; and a running call never waits for       *)
(* another call.                                                           *)
C30_BatchCompletes ==
    /\ AllTasksReturn ~> AllOutputsWritten
    /\ []NoTaskWaits

C30_Witness ==
    /\ AllOutputsWritten
    /\ Len(tasks) >= 2
    /\ config.n_cores = 1

====
